---------------------------- MODULE Spec2Model ----------------------------
(***************************************************************************)
(* A model of twilight-cache-inmemory (src/cache/in-memory/src/lib.rs,     *)
(* event/mod.rs and redis.rs): the InMemoryCacheRef store, its per-entity  *)
(* upsert and delete functions, the guild snapshot rebuild, the Ready,     *)
(* UnavailableGuild and UserUpdate handlers, the message buffers and the   *)
(* Arcs handed to callers, written as operators on the store and stepped   *)
(* one call at a time, or one map operation at a time where two calls run  *)
(* at once; and the cold resume, which freezes the store into chunks of an *)
(* external key-value store and restores it from them, stepped from await  *)
(* to await.                                                               *)
(***************************************************************************)
EXTENDS Integers, FiniteSets, Sequences, TLC

\* ------------------------------------------------------------------ bounds
\* Guild ids are 1..NumGuilds; 0 stands for None in an Option<GuildId>.
NumGuilds == 2
\* Role, channel, emoji and user ids are 1..NumIds.
NumIds == 2
\* Every payload carries one data field that stands for all the fields that
\* take part in its equality, besides the id: 1..NumData.
NumData == 2
\* No counter is driven above MaxCount (a call that would do so is not made).
MaxCount == 3
\* At most MaxArcs Arc allocations are alive at once.
MaxArcs == 3
\* The message cache of a channel is configured for 0..MaxSize messages.
MaxSize == 2
\* At most MaxAppends messages are appended in a run.
MaxAppends == 5

Guilds == 1..NumGuilds
Ids == 1..NumIds
Datas == 1..NumData
NoGuild == 0

\* twilight_model payloads, as the cache reads them.
Role == [id : Ids, data : Datas]
User == [id : Ids, data : Datas]
\* A GuildChannel of any variant: every variant has id and guild_id.
GuildChannel == [id : Ids, guild_id : Guilds \cup {NoGuild}, data : Datas]
\* Option<User> is the empty set (None) or a singleton (Some).
OptUser == {{}} \cup {{u} : u \in User}
\* `user` is the creator of the emoji, a field that CachedEmoji drops.
Emoji == [id : Ids, data : Datas, user : OptUser]
\* `data` stands for deaf, joined_at, mute, nick, pending, premium_since, roles.
Member == [user : User, data : Datas]

VARIABLES
    cache,      \* InMemoryCacheRef: the maps, sets and counters
    last,       \* the call made last: [op, guild, arg]
    repeat,     \* TRUE iff the call made last repeats the call before it
    ret,        \* what the call made last returned: [val, arm]
    roleLive,   \* history: per guild, the role ids cached for it and not deleted since
    focus,      \* what the calls of this run are drawn from:
                \* [kind, ids, guilds, datas, fields, handles, channels]
    threads,    \* two calls running at once: their guild and where each of them is
    arcs,       \* the Arc allocations: those the maps hold and those callers hold
    appended,   \* history: per channel, the message ids appended, oldest first
    guards,     \* the locks held between steps: the map-shard guards of calls that
                \* cannot return, and the Mutex of the current user
    cold        \* the cold resume: the external store, the snapshot being frozen
                \* or restored and how far it has got

vars == <<cache, last, repeat, ret, roleLive, focus, threads, arcs, appended, guards, cold>>

\* ------------------------------------------------------- DashMap / HashSet
\* A DashMap is a function on the set of its keys.
EmptyMap == <<>>
Has(map, k) == k \in DOMAIN map
Insert(map, k, v) == [x \in (DOMAIN map) \cup {k} |-> IF x = k THEN v ELSE map[x]]
Remove(map, k) == [x \in (DOMAIN map) \ {k} |-> map[x]]
\* map.get(k) as an Option.
Get(map, k) == IF Has(map, k) THEN {map[k]} ELSE {}
\* map.entry(k).or_default().insert(x) on a DashMap<K, HashSet<X>>.
EntryInsert(map, k, x) == Insert(map, k, (IF Has(map, k) THEN map[k] ELSE {}) \cup {x})
\* n.saturating_sub(k) on a usize.
saturating_sub(n, k) == IF n >= k THEN n - k ELSE 0

GuildItem(data, guild_id) == [data |-> data, guild_id |-> guild_id]

Metrics0 ==
    [channels_guild |-> 0, channels_private |-> 0, emojis |-> 0, guilds |-> 0,
     members |-> 0, messages |-> 0, roles |-> 0, unavailable_guilds |-> 0, users |-> 0]

\* The resource types an event handler asks the configuration about.
ResourceTypes == {"GUILD", "USER_CURRENT"}

\* The configuration: the resource types the cache wants and the number of
\* messages it keeps for a channel.
Config0 == [resource_types |-> ResourceTypes, message_cache_size |-> MaxSize]

\* InMemoryCacheRef::default(); current_user is an Option.
EmptyCache ==
    [config |-> Config0,
     channels_guild |-> EmptyMap, channels_private |-> EmptyMap, current_user |-> {},
     emojis |-> EmptyMap, groups |-> EmptyMap, guilds |-> EmptyMap,
     guild_channels |-> EmptyMap, guild_emojis |-> EmptyMap,
     guild_members |-> EmptyMap, guild_roles |-> EmptyMap,
     members |-> EmptyMap, messages |-> EmptyMap, roles |-> EmptyMap,
     unavailable_guilds |-> {}, users |-> EmptyMap, metrics |-> Metrics0]

\* No lock is held: no shard of the private-channel map is guarded and the
\* Mutex of the current user is free.
NoGuards == [private |-> {}, current_user |-> FALSE]

\* What a call returns: the value behind the returned Arc (none for a call that
\* returns ()) and the arm of the call that ended it: of an upsert, "eq" clones
\* the stored Arc, "replace" and "vacant" allocate a new one.
Ret(val, arm) == [val |-> val, arm |-> arm]
NoRet == Ret({}, "none")

\* ------------------------------------------------------------ read API
role(c, role_id) == {x.data : x \in Get(c.roles, role_id)}
guild_roles(c, guild_id) == Get(c.guild_roles, guild_id)

\* --------------------------------------------------------------- roles
\* A slip in the guard: roles compared by id alone.
role_eq_ids(stored, new) == stored.data.id = new.id
\* A slip in the guard: no stored role is ever taken as equal.
role_eq_never(stored, new) == FALSE
\* The guard of the first Occupied arm: *e.get().data == role.
role_eq(stored, new) == stored.data = new

cache_role(c, guild_id, new) ==
    LET c1 == [c EXCEPT !.guild_roles = EntryInsert(@, guild_id, new.id)]
    IN  IF Has(c.roles, new.id) /\ role_eq(c.roles[new.id], new)
        THEN [c |-> c1, ret |-> Ret({c.roles[new.id].data}, "eq")]
        ELSE IF Has(c.roles, new.id)
        THEN [c |-> [c1 EXCEPT !.roles = Insert(@, new.id, GuildItem(new, guild_id))],
              ret |-> Ret({new}, "replace")]
        ELSE [c |-> [c1 EXCEPT !.roles = Insert(@, new.id, GuildItem(new, guild_id)),
                               !.metrics.roles = @ + 1],
              ret |-> Ret({new}, "vacant")]

delete_role(c, role_id) ==
    IF ~Has(c.roles, role_id) THEN c
    ELSE LET g == c.roles[role_id].guild_id
             c1 == [c EXCEPT !.roles = Remove(@, role_id)]
         IN  IF Has(c.guild_roles, g) /\ role_id \in c.guild_roles[g]
             THEN [c1 EXCEPT !.guild_roles[g] = @ \ {role_id},
                             !.metrics.roles = saturating_sub(@, 1)]
             ELSE c1

\* ------------------------------------------------------------ channels
guild_channel(c, channel_id) == {x.data : x \in Get(c.channels_guild, channel_id)}
guild_channels(c, guild_id) == Get(c.guild_channels, guild_id)

\* A slip in the back-fill: get_or_insert in place of replace.
with_guild_id_if_absent(channel, guild_id) ==
    IF channel.guild_id = NoGuild THEN [channel EXCEPT !.guild_id = guild_id] ELSE channel
\* c.guild_id.replace(guild_id), the same in the three variants.
with_guild_id(channel, guild_id) == [channel EXCEPT !.guild_id = guild_id]

\* The guard of the first Occupied arm: *e.get().data == channel.
channel_eq(stored, channel) == stored.data = channel

cache_guild_channel(c, guild_id, incoming) ==
    LET channel == with_guild_id(incoming, guild_id)
        id == channel.id
        c1 == [c EXCEPT !.guild_channels = EntryInsert(@, guild_id, id)]
    IN  IF Has(c.channels_guild, id) /\ channel_eq(c.channels_guild[id], channel)
        THEN [c |-> c1, ret |-> Ret({c.channels_guild[id].data}, "eq")]
        ELSE IF Has(c.channels_guild, id)
        THEN [c |-> [c1 EXCEPT !.channels_guild =
                                    Insert(@, id, GuildItem(channel, guild_id))],
              ret |-> Ret({channel}, "replace")]
        ELSE [c |-> [c1 EXCEPT !.channels_guild =
                                    Insert(@, id, GuildItem(channel, guild_id)),
                               !.metrics.channels_guild = @ + 1],
              ret |-> Ret({channel}, "vacant")]

RECURSIVE cache_guild_channels(_, _, _)
cache_guild_channels(c, guild_id, channels) ==
    IF channels = {} THEN c
    ELSE LET ch == CHOOSE x \in channels : TRUE
         IN  cache_guild_channels(cache_guild_channel(c, guild_id, ch).c,
                                  guild_id, channels \ {ch})

delete_guild_channel(c, channel_id) ==
    IF ~Has(c.channels_guild, channel_id) THEN c
    ELSE LET g == c.channels_guild[channel_id].guild_id
             c1 == [c EXCEPT !.channels_guild = Remove(@, channel_id)]
         IN  IF Has(c.guild_channels, g) /\ channel_id \in c.guild_channels[g]
             THEN [c1 EXCEPT !.guild_channels[g] = @ \ {channel_id},
                             !.metrics.channels_guild = saturating_sub(@, 1)]
             ELSE c1

RECURSIVE cache_roles(_, _, _)
cache_roles(c, guild_id, roles) ==
    IF roles = {} THEN c
    ELSE LET r == CHOOSE x \in roles : TRUE
         IN  cache_roles(cache_role(c, guild_id, r).c, guild_id, roles \ {r})

\* ---------------------------------------------------------------- users
user(c, user_id) == {x.data : x \in Get(c.users, user_id)}
\* The BTreeSet<GuildId> kept with the user: cache.0.users.get(id).1.
user_guilds(c, user_id) == {x.guilds : x \in Get(c.users, user_id)}

\* The guard of the first arm: *u.0 == *user.
user_eq(stored, new) == stored.data = new

\* A slip in the first arm: the guild set is overwritten.
insert_guild_alone(guilds, guild_id) == {guild_id}
\* u.1.insert(guild_id) on the BTreeSet of an unchanged user.
insert_guild(guilds, guild_id) == guilds \cup {guild_id}

\* guild_id is a guild, or NoGuild for None.
cache_user(c, new, guild_id) ==
    IF Has(c.users, new.id) /\ user_eq(c.users[new.id], new)
    THEN [c |-> IF guild_id # NoGuild
                THEN [c EXCEPT !.users[new.id].guilds = insert_guild(@, guild_id)]
                ELSE c,
          ret |-> Ret({c.users[new.id].data}, "eq")]
    ELSE LET c1 == IF Has(c.users, new.id) THEN c
                   ELSE [c EXCEPT !.metrics.users = @ + 1]
         IN  [c |-> IF guild_id # NoGuild
                    THEN [c1 EXCEPT !.users =
                              Insert(@, new.id, [data |-> new, guilds |-> {guild_id}])]
                    ELSE c1,
              ret |-> Ret({new}, IF Has(c.users, new.id) THEN "replace" ELSE "vacant")]

\* --------------------------------------------------------------- emojis
emoji(c, emoji_id) == {x.data : x \in Get(c.emojis, emoji_id)}
guild_emojis(c, guild_id) == Get(c.guild_emojis, guild_id)

\* CachedEmoji { id, animated, name, require_colons, roles, available }.
CachedEmoji(e) == [id |-> e.id, data |-> e.data]
\* impl PartialEq<Emoji> for CachedEmoji: the user is not compared.
emoji_eq(cached, e) == cached.id = e.id /\ cached.data = e.data

cache_emoji(c, guild_id, e) ==
    IF Has(c.emojis, e.id) /\ emoji_eq(c.emojis[e.id].data, e) THEN c
    ELSE LET c1 == IF Has(c.emojis, e.id) THEN c
                   ELSE [c EXCEPT !.metrics.emojis = @ + 1]
             c2 == IF e.user = {} THEN c1
                   ELSE cache_user(c1, CHOOSE u \in e.user : TRUE, guild_id).c
         IN  [c2 EXCEPT !.emojis = Insert(@, e.id, GuildItem(CachedEmoji(e), guild_id)),
                        !.guild_emojis = EntryInsert(@, guild_id, e.id)]

RECURSIVE cache_emojis(_, _, _)
cache_emojis(c, guild_id, es) ==
    IF es = {} THEN c
    ELSE LET e == CHOOSE x \in es : TRUE
         IN  cache_emojis(cache_emoji(c, guild_id, e), guild_id, es \ {e})

\* -------------------------------------------------------------- members
member(c, guild_id, user_id) == Get(c.members, <<guild_id, user_id>>)
guild_members(c, guild_id) == Get(c.guild_members, guild_id)

CachedMember(m, guild_id) == [user_id |-> m.user.id, guild_id |-> guild_id, data |-> m.data]
\* impl PartialEq<Member> for CachedMember: the member's own fields; the user
\* id is compared with itself and the user's data is not compared.
member_eq(cached, m) == cached.data = m.data /\ cached.user_id = cached.user_id

cache_member(c, guild_id, m) ==
    LET member_id == m.user.id
        id == <<guild_id, member_id>>
    IN  IF Has(c.members, id) /\ member_eq(c.members[id], m) THEN c
        ELSE LET c1 == IF Has(c.members, id) THEN c
                       ELSE [c EXCEPT !.metrics.members = @ + 1]
                 c2 == cache_user(c1, m.user, guild_id).c
             IN  [c2 EXCEPT !.members = Insert(@, id, CachedMember(m, guild_id)),
                            !.guild_members = EntryInsert(@, guild_id, member_id)]

RECURSIVE cache_members(_, _, _)
cache_members(c, guild_id, ms) ==
    IF ms = {} THEN c
    ELSE LET m == CHOOSE x \in ms : TRUE
         IN  cache_members(cache_member(c, guild_id, m), guild_id, ms \ {m})

\* --------------------------------------------------------------- guilds
guild(c, guild_id) == Get(c.guilds, guild_id)

\* A slip in the rebuild: the index is created when missing and never cleared.
clear_index_or_default(c, index, counter, guild_id) ==
    IF Has(c[index], guild_id) THEN c ELSE [c EXCEPT ![index] = Insert(@, guild_id, {})]
\* .entry(id).and_modify(|set| { counter -= set.len(); set.clear() }).or_default()
\* on one of the four guild-scoped indices.
clear_index(c, index, counter, guild_id) ==
    IF Has(c[index], guild_id)
    THEN [c EXCEPT ![index][guild_id] = {},
                   !.metrics[counter] = saturating_sub(@, Cardinality(c[index][guild_id]))]
    ELSE [c EXCEPT ![index] = Insert(@, guild_id, {})]

CachedGuild(g) == [id |-> g.id, name |-> g.name]

cache_guild(c, g) ==
    LET c1 == clear_index(c, "guild_channels", "channels_guild", g.id)
        c2 == clear_index(c1, "guild_emojis", "emojis", g.id)
        c3 == clear_index(c2, "guild_members", "members", g.id)
        c4 == clear_index(c3, "guild_roles", "roles", g.id)
        c5 == cache_guild_channels(c4, g.id, g.channels)
        c6 == cache_emojis(c5, g.id, g.emojis)
        c7 == cache_members(c6, g.id, g.members)
        c8 == cache_roles(c7, g.id, g.roles)
        c9 == IF g.id \in c8.unavailable_guilds
              THEN [c8 EXCEPT !.unavailable_guilds = @ \ {g.id},
                              !.metrics.unavailable_guilds = saturating_sub(@, 1)]
              ELSE c8
    IN  IF Has(c9.guilds, g.id)
        THEN [c9 EXCEPT !.guilds = Insert(@, g.id, CachedGuild(g))]
        ELSE [c9 EXCEPT !.guilds = Insert(@, g.id, CachedGuild(g)),
                        !.metrics.guilds = @ + 1]

\* DashSet::insert and the counter that follows it.
unavailable_insert(c, guild_id) ==
    IF guild_id \in c.unavailable_guilds THEN c
    ELSE [c EXCEPT !.unavailable_guilds = @ \cup {guild_id},
                   !.metrics.unavailable_guilds = @ + 1]

\* A slip in the outage path: the guild stays in the guild map.
unavailable_guild_kept(c, guild_id) == unavailable_insert(c, guild_id)
unavailable_guild(c, guild_id) ==
    LET c1 == unavailable_insert(c, guild_id)
    IN  IF Has(c1.guilds, guild_id)
        THEN [c1 EXCEPT !.guilds = Remove(@, guild_id),
                        !.metrics.guilds = saturating_sub(@, 1)]
        ELSE c1

\* ------------------------------------------------------ private channels
\* A PrivateChannel, as the cache reads it: its recipients, in order, and one
\* data field for the rest.
PrivateChannel == [recipients : Seq(User), data : Datas]

\* A slip: a channel without recipients is filed under a default id.
first_recipient_or_default(p) == IF p.recipients = <<>> THEN {0} ELSE {p.recipients[1].id}
\* private_channel.recipients.first(), mapped to the id: an Option.
first_recipient(p) == IF p.recipients = <<>> THEN {} ELSE {p.recipients[1].id}

\* cache_private_channel, given the shards of channels_private whose guard is
\* held: the store after the call, the guards after it and what it returned.
\* .expect(..) panics on None ("panic"). `entry`, the
\* Ref that channels_private.get(&id) returned, lives to the end of the function:
\* with Some in it the call holds the read guard of the shard of id when it gets
\* to channels_private.insert(id, ..), which waits for the write guard of that
\* shard ("blocked": the call does not return and the guard stays held).
cache_private_channel(c, held, p) ==
    IF first_recipient(p) = {} THEN [c |-> c, held |-> held, ret |-> Ret({}, "panic")]
    ELSE LET id == CHOOSE x \in first_recipient(p) : TRUE
             entry == Get(c.channels_private, id)
             c1 == IF entry = {}
                   THEN [c EXCEPT !.metrics.channels_private = @ + 1]
                   ELSE c
         IN  IF entry = {p} THEN [c |-> c1, held |-> held, ret |-> Ret({p}, "eq")]
             ELSE IF entry # {}
             THEN [c |-> c1, held |-> held \cup {id}, ret |-> Ret({}, "blocked")]
             ELSE [c |-> [c1 EXCEPT !.channels_private = Insert(@, id, p)],
                   held |-> held, ret |-> Ret({p}, "vacant")]

\* --------------------------------------------------------------- events
\* cache.wants(resource_type): the interest flag of the configuration.
wants(c, resource_type) == resource_type \in c.config.resource_types

current_user(c) == c.current_user
cache_current_user(c, new) == [c EXCEPT !.current_user = {new}]

\* unavailable_guild as the event handlers have it: the guilds gauge is lowered
\* with add(-1).
event_unavailable_guild(c, guild_id) ==
    LET c1 == unavailable_insert(c, guild_id)
    IN  IF Has(c1.guilds, guild_id)
        THEN [c1 EXCEPT !.guilds = Remove(@, guild_id), !.metrics.guilds = @ - 1]
        ELSE c1

RECURSIVE unavailable_each(_, _)
unavailable_each(c, guild_ids) ==
    IF guild_ids = {} THEN c
    ELSE LET g == CHOOSE x \in guild_ids : TRUE
         IN  unavailable_each(event_unavailable_guild(c, g), guild_ids \ {g})

\* UpdateCache for Ready: ready.user is the current user, ready.guilds the ids
\* of the guilds of the session, all unavailable at first.
ready_update(c, ready) ==
    LET c1 == IF wants(c, "USER_CURRENT") THEN cache_current_user(c, ready.user) ELSE c
    IN  IF wants(c1, "GUILD") THEN unavailable_each(c1, ready.guilds) ELSE c1

\* A slip in the handler: the interest flag is not asked.
unavailable_guild_update_ungated(c, id) ==
    unavailable_insert(
        IF Has(c.guilds, id)
        THEN [c EXCEPT !.guilds = Remove(@, id), !.metrics.guilds = @ - 1]
        ELSE c, id)
\* UpdateCache for UnavailableGuild.
unavailable_guild_update(c, id) ==
    IF ~wants(c, "GUILD") THEN c
    ELSE unavailable_insert(
             IF Has(c.guilds, id)
             THEN [c EXCEPT !.guilds = Remove(@, id), !.metrics.guilds = @ - 1]
             ELSE c, id)

\* UpdateCache for UserUpdate.
user_update(c, new) ==
    IF ~wants(c, "USER_CURRENT") THEN c ELSE cache_current_user(c, new)

\* ------------------------------------------------------------- messages
\* A VecDeque is a sequence, front first.
push_front(q, x) == <<x>> \o q
pop_back(q) == SubSeq(q, 1, Len(q) - 1)

\* Message append: the message goes to the front of the channel's buffer, and
\* the oldest one is dropped when the buffer is longer than the configured size.
message_append(c, msg) ==
    LET q == IF Has(c.messages, msg.channel_id) THEN c.messages[msg.channel_id] ELSE <<>>
        q1 == push_front(q, [id |-> msg.id])
    IN  [c EXCEPT !.messages =
            Insert(@, msg.channel_id,
                   IF Len(q1) > c.config.message_cache_size THEN pop_back(q1) ELSE q1)]

\* A slip: the front of the buffer is taken for its oldest message.
first_message_front(c, channel_id) ==
    IF ~Has(c.messages, channel_id) \/ c.messages[channel_id] = <<>> THEN {}
    ELSE {c.messages[channel_id][1].id}
\* channel.iter().next_back().map(|msg| msg.id)
first_message(c, channel_id) ==
    IF ~Has(c.messages, channel_id) \/ c.messages[channel_id] = <<>> THEN {}
    ELSE {c.messages[channel_id][Len(c.messages[channel_id])].id}

\* channel.iter().next().map(|msg| msg.id)
last_message(c, channel_id) ==
    IF ~Has(c.messages, channel_id) \/ c.messages[channel_id] = <<>> THEN {}
    ELSE {c.messages[channel_id][1].id}

\* ---------------------------------------------------------------- clear
clear(c) ==
    [c EXCEPT !.channels_guild = EmptyMap, !.current_user = {}, !.emojis = EmptyMap,
              !.guilds = EmptyMap, !.roles = EmptyMap, !.users = EmptyMap]

\* -------------------------------------------------------- member remove
\* UpdateCache for MemberRemove: the member entry and its index entry go, the
\* guild leaves the user's guild set, and a user left with no guild is removed.
member_remove(c, guild_id, user_id) ==
    LET id == <<guild_id, user_id>>
        c1 == IF Has(c.members, id)
              THEN [c EXCEPT !.members = Remove(@, id),
                             !.metrics.members = saturating_sub(@, 1)]
              ELSE c
        c2 == IF Has(c1.guild_members, guild_id)
              THEN [c1 EXCEPT !.guild_members[guild_id] = @ \ {user_id}]
              ELSE c1
    IN  IF ~Has(c2.users, user_id) THEN [c |-> c2, ret |-> Ret({}, "absent")]
        ELSE IF c2.users[user_id].guilds \ {guild_id} = {}
        THEN [c |-> [c2 EXCEPT !.users = Remove(@, user_id),
                               !.metrics.users = saturating_sub(@, 1)],
              ret |-> Ret({}, "removed")]
        ELSE [c |-> [c2 EXCEPT !.users[user_id].guilds = @ \ {guild_id}],
              ret |-> Ret({}, "kept")]

\* ------------------------------------------------------------- the calls
Call(op, g, arg) == [op |-> op, guild |-> g, arg |-> arg]
NoCall == Call("none", NoGuild, [id |-> 0])

\* The payloads a run draws its calls from: ids in focus.ids, guilds in
\* focus.guilds, data in focus.datas, and the guild_id field of an incoming
\* channel in focus.fields.
RolesIn == [id : focus.ids, data : focus.datas]
UsersIn == [id : focus.ids, data : focus.datas]
ChannelsIn == [id : focus.ids, guild_id : focus.fields, data : focus.datas]
EmojisIn == [id : focus.ids, data : focus.datas, user : {{}} \cup {{u} : u \in UsersIn}]
MembersIn == [user : UsersIn, data : focus.datas]

\* The sets of payloads that may be one list of a Guild: a HashMap keyed by id
\* holds at most one payload per id.
OnePerId(S, Key(_)) ==
    UNION {{{f[i] : i \in I} : f \in {h \in [I -> S] : \A i \in I : Key(h[i]) = i}} :
              I \in SUBSET focus.ids}
IdOf(x) == x.id
UserIdOf(m) == m.user.id
\* A Guild payload: the lists of the kind in focus are filled, the others empty.
GuildsIn ==
    {[id |-> g, name |-> 1, channels |-> chs, emojis |-> es, members |-> ms, roles |-> rs] :
        g \in focus.guilds,
        chs \in IF focus.kind = "channel"
                THEN OnePerId(ChannelsIn, IdOf) ELSE {{}},
        es \in IF focus.kind = "emoji" THEN OnePerId(EmojisIn, IdOf) ELSE {{}},
        ms \in IF focus.kind = "member" THEN OnePerId(MembersIn, UserIdOf) ELSE {{}},
        rs \in IF focus.kind = "role" THEN OnePerId(RolesIn, IdOf) ELSE {{}}}

\* No counter is driven above MaxCount.
Capped(c) == \A k \in DOMAIN c.metrics : c.metrics[k] <= MaxCount

\* One call: the store after it, what it returned, and the record of the call.
Did0(call, c, r) ==
    /\ Capped(c)
    /\ cache' = c
    /\ ret' = r
    /\ last' = call
    /\ repeat' = (last.op = call.op /\ last.guild = call.guild /\ last.arg = call.arg)
    /\ UNCHANGED focus

\* ------------------------------------------------------------- the Arcs
\* A point lookup: the value behind the Arc it returns, as an Option.
lookup(c, k) ==
    CASE k[1] = "role" -> role(c, k[2])
      [] k[1] = "guild_channel" -> guild_channel(c, k[2])
      [] k[1] = "emoji" -> emoji(c, k[2])
      [] k[1] = "guild" -> guild(c, k[2])
      [] k[1] = "member" -> member(c, k[2][1], k[2][2])
      [] k[1] = "user" -> user(c, k[2])

\* The keys of the point lookups of a run.
KeysIn ==
    ({"role", "guild_channel", "emoji", "user"} \X focus.ids)
        \cup ({"guild"} \X focus.guilds)
        \cup ({"member"} \X (focus.guilds \X focus.ids))

\* arcs.obj is the value of each live allocation, arcs.at the allocation each
\* map entry holds, arcs.held the handles callers hold: the allocation and the
\* value read through it when the lookup returned.
Live(a) == {a.at[k] : k \in DOMAIN a.at} \cup {h.addr : h \in a.held}
\* An allocation is freed when its last Arc is dropped.
Dropped(a) == [a EXCEPT !.obj = [x \in DOMAIN a.obj \cap Live(a) |-> a.obj[x]]]

\* A slip: the value behind the stored Arc is overwritten where it is.
arc_in_place(a, k, val, addr) ==
    IF Has(a.at, k) THEN [a EXCEPT !.obj[a.at[k]] = val]
    ELSE [a EXCEPT !.obj = Insert(@, addr, val), !.at = Insert(@, k, addr)]
\* map.insert(id, Arc::new(val)): the entry holds a new allocation.
arc_new(a, k, val, addr) ==
    [a EXCEPT !.obj = Insert(@, addr, val), !.at = Insert(@, k, addr)]

RECURSIVE arc_news(_, _, _, _)
arc_news(a, ks, f, c) ==
    IF ks = {} THEN a
    ELSE LET k == CHOOSE x \in ks : TRUE
         IN  arc_news(arc_new(a, k, CHOOSE v \in lookup(c, k) : TRUE, f[k]),
                      ks \ {k}, f, c)

\* The entries a call has given a new Arc: those whose value is new, and the
\* guild of a cache_guild, which is inserted anew in any case.
Renewed(call, c, c2) ==
    {k \in KeysIn : /\ lookup(c2, k) # {}
                    /\ \/ lookup(c2, k) # lookup(c, k)
                       \/ call.op = "cache_guild" /\ k = <<"guild", call.guild>>}
Free(a) == (1..MaxArcs) \ Live(a)

\* The allocations after a call that took the store from c to c2.
Sync(a, call, c, c2) ==
    LET new == Renewed(call, c, c2)
        f == CHOOSE h \in [new -> Free(a)] : \A x, y \in new : h[x] = h[y] => x = y
        a1 == arc_news(a, new, f, c2)
    IN  Dropped([a1 EXCEPT !.at = [k \in {x \in DOMAIN a1.at : lookup(c2, x) # {}} |->
                                       a1.at[k]]])

\* One call made while no other call runs.
Did(call, c, r) ==
    /\ threads.cg = "idle" /\ threads.ug = "idle"
    /\ Did0(call, c, r)
    /\ IF focus.handles
       THEN /\ Cardinality(Renewed(call, cache, c)) <= Cardinality(Free(arcs))
            /\ arcs' = Sync(arcs, call, cache, c)
       ELSE UNCHANGED arcs
    /\ UNCHANGED <<threads, appended, guards, cold>>

\* A caller looks an entity up and keeps the handle.
Lookup ==
    \E k \in KeysIn :
        /\ lookup(cache, k) # {}
        /\ arcs' = [arcs EXCEPT !.held = @ \cup {[addr |-> arcs.at[k],
                                                  val |-> arcs.obj[arcs.at[k]]]}]
        /\ last' = Call("lookup", NoGuild, [id |-> k[2]])
        /\ repeat' = FALSE
        /\ UNCHANGED <<cache, ret, roleLive, focus, threads, appended, guards, cold>>

\* A caller drops a handle.
Drop ==
    \E h \in arcs.held :
        /\ arcs' = Dropped([arcs EXCEPT !.held = @ \ {h}])
        /\ last' = Call("drop", NoGuild, [id |-> 0])
        /\ repeat' = FALSE
        /\ UNCHANGED <<cache, ret, roleLive, focus, threads, appended, guards, cold>>

CacheRoleCall(g, p) ==
    LET r == cache_role(cache, g, p)
    IN  /\ Did(Call("cache_role", g, p), r.c, r.ret)
        /\ roleLive' = [roleLive EXCEPT ![g] = @ \cup {p.id}]

CacheRole == \E g \in focus.guilds, p \in RolesIn : CacheRoleCall(g, p)

DeleteRoleCall(id) ==
    /\ Did(Call("delete_role", NoGuild, [id |-> id]), delete_role(cache, id), NoRet)
    /\ roleLive' = [g \in Guilds |-> roleLive[g] \ {id}]

DeleteRole == \E id \in focus.ids : DeleteRoleCall(id)

CacheGuildChannelCall(g, ch) ==
    LET r == cache_guild_channel(cache, g, ch)
    IN  /\ Did(Call("cache_guild_channel", g, ch), r.c, r.ret)
        /\ UNCHANGED roleLive

CacheGuildChannel == \E g \in focus.guilds, ch \in ChannelsIn : CacheGuildChannelCall(g, ch)

DeleteGuildChannelCall(id) ==
    /\ Did(Call("delete_guild_channel", NoGuild, [id |-> id]),
           delete_guild_channel(cache, id), NoRet)
    /\ UNCHANGED roleLive

DeleteGuildChannel == \E id \in focus.ids : DeleteGuildChannelCall(id)

CacheEmojiCall(g, e) ==
    /\ Did(Call("cache_emoji", g, e), cache_emoji(cache, g, e), NoRet)
    /\ UNCHANGED roleLive

CacheEmoji == \E g \in focus.guilds, e \in EmojisIn : CacheEmojiCall(g, e)

CacheMemberCall(g, m) ==
    /\ Did(Call("cache_member", g, m), cache_member(cache, g, m), NoRet)
    /\ UNCHANGED roleLive

CacheMember == \E g \in focus.guilds, m \in MembersIn : CacheMemberCall(g, m)

\* g is a guild, or NoGuild for a user cached without guild context.
CacheUserCall(u, g) ==
    LET r == cache_user(cache, u, g)
    IN  /\ Did(Call("cache_user", g, u), r.c, r.ret)
        /\ UNCHANGED roleLive

CacheUser == \E u \in UsersIn, g \in focus.guilds \cup {NoGuild} : CacheUserCall(u, g)

MemberRemoveCall(g, id) ==
    LET r == member_remove(cache, g, id)
    IN  /\ Did(Call("member_remove", g, [id |-> id]), r.c, r.ret)
        /\ UNCHANGED roleLive

MemberRemove == \E g \in focus.guilds, id \in focus.ids : MemberRemoveCall(g, id)

CacheGuildCall(g) ==
    /\ Did(Call("cache_guild", g.id, g), cache_guild(cache, g), NoRet)
    /\ roleLive' = [roleLive EXCEPT ![g.id] = {r.id : r \in g.roles}]

CacheGuild == \E g \in GuildsIn : CacheGuildCall(g)

UnavailableGuildCall(g) ==
    /\ Did(Call("unavailable_guild", g, [id |-> g]), unavailable_guild(cache, g), NoRet)
    /\ UNCHANGED roleLive

UnavailableGuildFn == \E g \in focus.guilds : UnavailableGuildCall(g)

\* The messages a run appends: ids in focus.ids, channels in focus.channels.
MessagesIn == [id : focus.ids, channel_id : focus.channels]
Appended(ch) == IF Has(appended, ch) THEN appended[ch] ELSE <<>>

MessageCreateCall(msg) ==
    /\ Len(Appended(msg.channel_id)) < MaxAppends
    /\ threads.cg = "idle" /\ threads.ug = "idle"
    /\ Did0(Call("MessageCreate", NoGuild, msg), message_append(cache, msg), NoRet)
    /\ appended' = Insert(appended, msg.channel_id, Append(Appended(msg.channel_id), msg.id))
    /\ UNCHANGED <<roleLive, threads, arcs, guards, cold>>

MessageCreate == \E msg \in MessagesIn : MessageCreateCall(msg)

Clear ==
    /\ Did(Call("clear", NoGuild, [id |-> 0]), clear(cache), NoRet)
    /\ roleLive' = [g \in Guilds |-> {}]

\* The current users an event may carry.
CurrentUsersIn == [id : focus.ids, data : focus.datas]

ReadyCall(ready) ==
    /\ Did(Call("Ready", NoGuild, ready), ready_update(cache, ready), NoRet)
    /\ UNCHANGED roleLive

Ready == \E u \in CurrentUsersIn, gs \in SUBSET focus.guilds :
             ReadyCall([user |-> u, guilds |-> gs])

UnavailableGuildEventCall(g) ==
    /\ Did(Call("UnavailableGuild", g, [id |-> g]), unavailable_guild_update(cache, g), NoRet)
    /\ UNCHANGED roleLive

UnavailableGuild == \E g \in focus.guilds : UnavailableGuildEventCall(g)

UserUpdateCall(u) ==
    /\ Did(Call("UserUpdate", NoGuild, u), user_update(cache, u), NoRet)
    /\ UNCHANGED roleLive

UserUpdate == \E u \in CurrentUsersIn : UserUpdateCall(u)

\* The recipients of the private channels of a run: one user for each id.
RecipientsIn == {u \in UsersIn : u.data = 1}
\* The private channels a run caches: no recipient, one or two.
PrivateChannelsIn ==
    [recipients : {<<>>} \cup {<<u>> : u \in RecipientsIn}
                      \cup {<<u, v>> : u, v \in RecipientsIn},
     data : focus.datas]

\* A call for a shard whose guard is stuck in a blocked call is not made.
CachePrivateChannelCall(p) ==
    LET r == cache_private_channel(cache, guards.private, p)
    IN  /\ threads.cg = "idle" /\ threads.ug = "idle"
        /\ first_recipient(p) \cap guards.private = {}
        /\ Did0(Call("cache_private_channel", NoGuild, p), r.c, r.ret)
        /\ guards' = [guards EXCEPT !.private = r.held]
        /\ UNCHANGED <<roleLive, threads, arcs, appended, cold>>

CachePrivateChannel == \E p \in PrivateChannelsIn : CachePrivateChannelCall(p)

\* ------------------------------------ the Arc of the current user
\* The slot of the current user among the allocations.
current_user_slot == <<"current_user", 0>>

\* A slip: the stored Arc is taken as unique while callers hold handles to it.
get_mut_shared(a, k) == Has(a.at, k)
\* Arc::get_mut(&mut user): Some only if no other Arc points to the allocation.
get_mut(a, k) == Has(a.at, k) /\ ~\E h \in a.held : h.addr = a.at[k]

\* cache_current_user as lib.rs has it, after the lock: the value is swapped
\* into the allocation of the slot if that is uniquely owned, and else the
\* slot is given a new Arc.
cache_current_user_locked(c, a, new, addr) ==
    IF c.current_user # {} /\ get_mut(a, current_user_slot)
    THEN [c |-> [c EXCEPT !.current_user = {new}],
          a |-> [a EXCEPT !.obj[a.at[current_user_slot]] = new],
          ret |-> Ret({}, "swap")]
    ELSE [c |-> [c EXCEPT !.current_user = {new}],
          a |-> Dropped(arc_new(a, current_user_slot, new, addr)),
          ret |-> Ret({}, "new")]

\* self.0.current_user.lock(): the call has the Mutex.
CacheCurrentUserLock ==
    \E u \in CurrentUsersIn :
        /\ ~guards.current_user
        /\ guards' = [guards EXCEPT !.current_user = TRUE]
        /\ last' = Call("cache_current_user", NoGuild, u)
        /\ ret' = Ret({}, "locked")
        /\ repeat' = FALSE
        /\ UNCHANGED <<cache, roleLive, focus, threads, arcs, appended, cold>>

\* The body of cache_current_user and its return, which drops the guard.
CacheCurrentUserReturn ==
    /\ guards.current_user /\ ret.arm = "locked"
    /\ LET swap == cache.current_user # {} /\ get_mut(arcs, current_user_slot)
           addr == IF Free(arcs) = {} THEN 0 ELSE CHOOSE x \in Free(arcs) : TRUE
           r == cache_current_user_locked(cache, arcs, last.arg, addr)
       IN  /\ swap \/ Free(arcs) # {}
           /\ cache' = r.c
           /\ arcs' = r.a
           /\ ret' = r.ret
    /\ guards' = [guards EXCEPT !.current_user = FALSE]
    /\ UNCHANGED <<last, repeat, roleLive, focus, threads, appended, cold>>

\* current_user(): lock().clone(), the caller keeps the handle it is given.
CurrentUserCall ==
    /\ ~guards.current_user
    /\ current_user(cache) # {}
    /\ arcs' = [arcs EXCEPT !.held = @ \cup {[addr |-> arcs.at[current_user_slot],
                                              val |-> arcs.obj[arcs.at[current_user_slot]]]}]
    /\ last' = Call("current_user", NoGuild, [id |-> 0])
    /\ ret' = Ret(current_user(cache), "clone")
    /\ repeat' = FALSE
    /\ UNCHANGED <<cache, roleLive, focus, threads, appended, guards, cold>>

\* ------------------- cache_guild and unavailable_guild on two threads
\* Each thread is at the operation it runs next: of cache_guild "start" (the
\* rebuild of the indices and the caching of the lists), "remove"
\* (unavailable_guilds.remove), "sub" (the counter after it), "insert"
\* (guilds.insert), "add" (the counter after it); of unavailable_guild "insert"
\* (unavailable_guilds.insert), "add", "remove" (guilds.remove), "sub"; and
\* "done" when the call has returned.
NoThreads == [guild |-> [id |-> NoGuild], cg |-> "idle", ug |-> "idle"]

Step(c, t) ==
    /\ Capped(c)
    /\ cache' = c
    /\ threads' = t
    /\ UNCHANGED <<last, repeat, ret, roleLive, focus, arcs, appended, guards, cold>>

\* The two calls begin, the earlier pair, if any, having returned.
RaceBegin ==
    \E g \in GuildsIn :
        /\ threads.cg \in {"idle", "done"} /\ threads.ug \in {"idle", "done"}
        /\ threads.cg = threads.ug
        /\ Step(cache, [guild |-> g, cg |-> "start", ug |-> "insert"])

CacheGuildRebuild ==
    /\ threads.cg = "start"
    /\ LET g == threads.guild
           c1 == clear_index(cache, "guild_channels", "channels_guild", g.id)
           c2 == clear_index(c1, "guild_emojis", "emojis", g.id)
           c3 == clear_index(c2, "guild_members", "members", g.id)
           c4 == clear_index(c3, "guild_roles", "roles", g.id)
           c5 == cache_guild_channels(c4, g.id, g.channels)
           c6 == cache_emojis(c5, g.id, g.emojis)
           c7 == cache_members(c6, g.id, g.members)
       IN  Step(cache_roles(c7, g.id, g.roles), [threads EXCEPT !.cg = "remove"])

CacheGuildRemove ==
    /\ threads.cg = "remove"
    /\ Step([cache EXCEPT !.unavailable_guilds = @ \ {threads.guild.id}],
            [threads EXCEPT !.cg = IF threads.guild.id \in cache.unavailable_guilds
                                   THEN "sub" ELSE "insert"])

CacheGuildSub ==
    /\ threads.cg = "sub"
    /\ Step([cache EXCEPT !.metrics.unavailable_guilds = saturating_sub(@, 1)],
            [threads EXCEPT !.cg = "insert"])

CacheGuildInsert ==
    /\ threads.cg = "insert"
    /\ Step([cache EXCEPT !.guilds = Insert(@, threads.guild.id, CachedGuild(threads.guild))],
            [threads EXCEPT !.cg = IF Has(cache.guilds, threads.guild.id)
                                   THEN "done" ELSE "add"])

CacheGuildAdd ==
    /\ threads.cg = "add"
    /\ Step([cache EXCEPT !.metrics.guilds = @ + 1], [threads EXCEPT !.cg = "done"])

UnavailableInsert ==
    /\ threads.ug = "insert"
    /\ Step([cache EXCEPT !.unavailable_guilds = @ \cup {threads.guild.id}],
            [threads EXCEPT !.ug = IF threads.guild.id \in cache.unavailable_guilds
                                   THEN "remove" ELSE "add"])

UnavailableAdd ==
    /\ threads.ug = "add"
    /\ Step([cache EXCEPT !.metrics.unavailable_guilds = @ + 1],
            [threads EXCEPT !.ug = "remove"])

UnavailableRemove ==
    /\ threads.ug = "remove"
    /\ Step([cache EXCEPT !.guilds = Remove(@, threads.guild.id)],
            [threads EXCEPT !.ug = IF Has(cache.guilds, threads.guild.id)
                                   THEN "sub" ELSE "done"])

UnavailableSub ==
    /\ threads.ug = "sub"
    /\ Step([cache EXCEPT !.metrics.guilds = saturating_sub(@, 1)],
            [threads EXCEPT !.ug = "done"])

\* ------------------------- cache_role and delete_role on two threads
\* cache_role(guild, role) is at "index" (guild_roles.entry(..).or_default()
\* .insert), at "entry" (roles.entry(role.id) and the arm it takes) or, in the
\* Vacant arm with the counter raised and the shard of the entry still locked,
\* at "insert"; delete_role(role.id) is at "remove" (roles.remove), at
\* "unindex" (guild_roles.get_mut(&role.guild_id) and the remove from the set)
\* or, with the guard of the set still held, at "sub" (the counter). `removed`
\* is the GuildItem that roles.remove gave delete_role.
RoleThreads(g, r) == [guild |-> g, role |-> r, cr |-> "index", dr |-> "remove", removed |-> {}]

\* No call is under way on another thread.
Quiet == threads = NoThreads

\* The two calls begin on a cache that holds the role under the guild, the
\* earlier pair, if any, having returned.
RoleRaceBegin ==
    \E g \in focus.guilds, id \in focus.ids :
        /\ IF Quiet THEN TRUE ELSE threads.cr = "done" /\ threads.dr = "done"
        /\ Has(cache.roles, id) /\ cache.roles[id].guild_id = g
        /\ Has(cache.guild_roles, g) /\ id \in cache.guild_roles[g]
        /\ cache.metrics.roles = Cardinality(DOMAIN cache.roles)
        /\ Step(cache, RoleThreads(g, cache.roles[id].data))

CacheRoleIndex ==
    /\ threads # NoThreads /\ threads.cr = "index"
    /\ ~(threads.dr = "sub" /\ \E x \in threads.removed : x.guild_id = threads.guild)
    /\ Step([cache EXCEPT !.guild_roles = EntryInsert(@, threads.guild, threads.role.id)],
            [threads EXCEPT !.cr = "entry"])

CacheRoleEntry ==
    /\ threads # NoThreads /\ threads.cr = "entry"
    /\ LET new == threads.role
       IN  IF Has(cache.roles, new.id) /\ role_eq(cache.roles[new.id], new)
           THEN Step(cache, [threads EXCEPT !.cr = "done"])
           ELSE IF Has(cache.roles, new.id)
           THEN Step([cache EXCEPT !.roles = Insert(@, new.id, GuildItem(new, threads.guild))],
                     [threads EXCEPT !.cr = "done"])
           ELSE Step([cache EXCEPT !.metrics.roles = @ + 1], [threads EXCEPT !.cr = "insert"])

CacheRoleInsert ==
    /\ threads # NoThreads /\ threads.cr = "insert"
    /\ Step([cache EXCEPT !.roles = Insert(@, threads.role.id,
                                           GuildItem(threads.role, threads.guild))],
            [threads EXCEPT !.cr = "done"])

\* roles.remove waits for the shard that a Vacant entry of cache_role holds.
DeleteRoleRemove ==
    /\ threads # NoThreads /\ threads.dr = "remove"
    /\ threads.cr # "insert"
    /\ LET role_id == threads.role.id
       IN  IF ~Has(cache.roles, role_id)
           THEN Step(cache, [threads EXCEPT !.dr = "done"])
           ELSE Step([cache EXCEPT !.roles = Remove(@, role_id)],
                     [threads EXCEPT !.dr = "unindex", !.removed = {cache.roles[role_id]}])

DeleteRoleUnindex ==
    /\ threads # NoThreads /\ threads.dr = "unindex"
    /\ LET role_id == threads.role.id
           g == (CHOOSE x \in threads.removed : TRUE).guild_id
       IN  IF Has(cache.guild_roles, g) /\ role_id \in cache.guild_roles[g]
           THEN Step([cache EXCEPT !.guild_roles[g] = @ \ {role_id}],
                     [threads EXCEPT !.dr = "sub"])
           ELSE Step(cache, [threads EXCEPT !.dr = "done"])

DeleteRoleSub ==
    /\ threads # NoThreads /\ threads.dr = "sub"
    /\ Step([cache EXCEPT !.metrics.roles = saturating_sub(@, 1)],
            [threads EXCEPT !.dr = "done"])

\* ----------------------- one upsert of a new id, called on two threads
\* cache_emoji, cache_member, cache_user and cache_private_channel look the id
\* up and count it if it is not there ("get"), cache_emoji and cache_member
\* then cache the user of the payload ("user"), all four insert into the
\* primary map ("insert"), and cache_emoji and cache_member into the index of
\* the guild ("index"). Thread a and thread b are each at one of these, or
\* "done"; `count` is the counter of the type when the two calls began.
UpsertKinds == {"emoji", "member", "user", "private"}
primary(kind) ==
    CASE kind = "emoji" -> "emojis"
      [] kind = "member" -> "members"
      [] kind = "user" -> "users"
      [] kind = "private" -> "channels_private"
upsert_key(kind, g, x) ==
    CASE kind = "emoji" -> x.id
      [] kind = "member" -> <<g, x.user.id>>
      [] kind = "user" -> x.id
      [] kind = "private" -> CHOOSE id \in first_recipient(x) : TRUE
UpsertThreads(kind, g, x, n) ==
    [kind |-> kind, guild |-> g, arg |-> x, count |-> n, a |-> "get", b |-> "get"]

\* The first match of the call: the lookup, the arm it takes and the counter
\* of the None arm.
upsert_get(c, kind, g, x) ==
    LET map == primary(kind)
        k == upsert_key(kind, g, x)
        stored == Get(c[map], k)
        eq == CASE kind = "emoji" -> \E s \in stored : emoji_eq(s.data, x)
                [] kind = "member" -> \E s \in stored : member_eq(s, x)
                [] kind = "user" -> \E s \in stored : user_eq(s, x)
                [] kind = "private" -> stored = {x}
    IN  IF eq
        THEN [c |-> IF kind = "user" THEN [c EXCEPT !.users[k].guilds = insert_guild(@, g)]
                    ELSE c,
              arm |-> "eq"]
        ELSE IF stored # {} THEN [c |-> c, arm |-> "replace"]
        ELSE [c |-> [c EXCEPT !.metrics[map] = @ + 1], arm |-> "vacant"]

\* self.cache_user(.., Some(guild_id)) of cache_emoji and cache_member.
upsert_user(c, kind, g, x) ==
    CASE kind = "emoji" ->
             IF x.user = {} THEN c ELSE cache_user(c, CHOOSE u \in x.user : TRUE, g).c
      [] kind = "member" -> cache_user(c, x.user, g).c

\* The insert into the primary map.
upsert_insert(c, kind, g, x) ==
    CASE kind = "emoji" ->
             [c EXCEPT !.emojis = Insert(@, x.id, GuildItem(CachedEmoji(x), g))]
      [] kind = "member" ->
             [c EXCEPT !.members = Insert(@, <<g, x.user.id>>, CachedMember(x, g))]
      [] kind = "user" ->
             [c EXCEPT !.users = Insert(@, x.id, [data |-> x, guilds |-> {g}])]
      [] kind = "private" ->
             [c EXCEPT !.channels_private = Insert(@, upsert_key(kind, g, x), x)]

\* The insert into the index of the guild.
upsert_index(c, kind, g, x) ==
    CASE kind = "emoji" -> [c EXCEPT !.guild_emojis = EntryInsert(@, g, x.id)]
      [] kind = "member" -> [c EXCEPT !.guild_members = EntryInsert(@, g, x.user.id)]

\* Where a thread is after a step.
upsert_next(kind, at, arm) ==
    CASE at = "get" /\ arm = "eq" -> "done"
      [] at = "get" /\ arm = "replace" /\ kind = "private" -> "blocked"
      [] at = "get" /\ kind \in {"emoji", "member"} -> "user"
      [] at = "get" -> "insert"
      [] at = "user" -> "insert"
      [] at = "insert" /\ kind \in {"emoji", "member"} -> "index"
      [] OTHER -> "done"

\* The same call begins on two threads, for an id that is not cached, the
\* earlier pair, if any, having returned.
UpsertRaceBegin ==
    \E g \in focus.guilds :
        \E x \in CASE focus.kind = "emoji" -> EmojisIn
                   [] focus.kind = "member" -> MembersIn
                   [] focus.kind = "user" -> UsersIn
                   [] focus.kind = "private" -> {p \in PrivateChannelsIn : p.recipients # <<>>} :
            /\ IF Quiet THEN TRUE ELSE threads.a = "done" /\ threads.b = "done"
            /\ ~Has(cache[primary(focus.kind)], upsert_key(focus.kind, g, x))
            /\ Step(cache, UpsertThreads(focus.kind, g, x, cache.metrics[primary(focus.kind)]))

UpsertGet ==
    \E t \in {"a", "b"} :
        /\ ~Quiet /\ threads[t] = "get"
        /\ LET r == upsert_get(cache, threads.kind, threads.guild, threads.arg)
           IN  Step(r.c, [threads EXCEPT ![t] = upsert_next(threads.kind, "get", r.arm)])

UpsertUser ==
    \E t \in {"a", "b"} :
        /\ ~Quiet /\ threads[t] = "user"
        /\ Step(upsert_user(cache, threads.kind, threads.guild, threads.arg),
                [threads EXCEPT ![t] = upsert_next(threads.kind, "user", "none")])

UpsertInsert ==
    \E t \in {"a", "b"} :
        /\ ~Quiet /\ threads[t] = "insert"
        /\ Step(upsert_insert(cache, threads.kind, threads.guild, threads.arg),
                [threads EXCEPT ![t] = upsert_next(threads.kind, "insert", "none")])

UpsertIndex ==
    \E t \in {"a", "b"} :
        /\ ~Quiet /\ threads[t] = "index"
        /\ Step(upsert_index(cache, threads.kind, threads.guild, threads.arg),
                [threads EXCEPT ![t] = upsert_next(threads.kind, "index", "none")])

\* ------------------------------------------------------------ cold resume
\* The chunk size of prepare_cold_resume: 100_000 in the code, scaled down so
\* that a map of the model fills more than one chunk.
ChunkSize == 2

\* The resource types prepare_cold_resume writes in chunks, in its order.
freeze_order ==
    <<"guilds", "users", "members", "channels", "emojis", "roles", "unavailable guilds">>
\* A slip in the order of the restore: the members come before the users.
restore_order_members_first ==
    <<"guilds", "members", "users", "channels", "emojis", "roles", "unavailable guilds",
      "current_user">>
\* The resource types in the order restore_cold_resume takes them, under the
\* names its errors carry.
restore_order ==
    <<"guilds", "users", "members", "channels", "emojis", "roles", "unavailable guilds",
      "current_user">>

\* The keys of the external store: "cb_cluster_<type>_chunk_<index>",
\* "cb_cluster_current_user" and "cb_cluster_data".
chunk_key(T, index) == <<T, index>>
current_user_key == <<"current_user", 0>>
data_key == <<"data", 0>>

\* What goes wrong in a run, if anything: the write of a key fails while the
\* cache is frozen ("write"), the key expires before the restore ("expired"),
\* the store fails to give it ("storage") or its value does not parse ("parse").
NoFault == [key |-> <<"none", 0>>, mode |-> "none"]
fails(fault, key, mode) == fault = [key |-> key, mode |-> mode]

\* A slip: the number of chunks without the one for the remainder.
chunk_count_floor(n) == n \div ChunkSize
\* len / 100_000 + 1
chunk_count(n) == n \div ChunkSize + 1

\* map.iter(): the keys in an order that the map chooses, here one order or
\* its reverse.
RECURSIVE iter(_, _)
iter(keys, reversed) ==
    IF keys = {} THEN <<>>
    ELSE LET k == CHOOSE x \in keys : TRUE
         IN  IF reversed THEN Append(iter(keys \ {k}, reversed), k)
             ELSE <<k>> \o iter(keys \ {k}, reversed)

\* A slip: the i-th key goes to the chunk i / chunks.
work_orders_by_quotient(order, chunks) ==
    [i \in 0..(chunks - 1) |-> {order[j] : j \in {x \in DOMAIN order : (x - 1) \div chunks = i}}]
\* work_orders[i % chunks].push(key), for the i-th key of the iteration.
work_orders(order, chunks) ==
    [i \in 0..(chunks - 1) |-> {order[j] : j \in {x \in DOMAIN order : (x - 1) % chunks = i}}]

\* matches!(channel, GuildChannel::Text(_)): the variant is part of the data of
\* a channel, and data 1 is that of a text channel.
is_text(channel) == channel.data = 1

\* A slip: the channels are handed out without the filter for Text channels.
frozen_keys_unfiltered(c, T) ==
    CASE T = "guilds" -> DOMAIN c.guilds
      [] T = "users" -> DOMAIN c.users
      [] T = "members" -> DOMAIN c.members
      [] T = "channels" -> DOMAIN c.channels_guild
      [] T = "emojis" -> DOMAIN c.emojis
      [] T = "roles" -> DOMAIN c.roles
      [] T = "unavailable guilds" -> c.unavailable_guilds
\* The keys that prepare_cold_resume hands out for a resource type.
frozen_keys(c, T) ==
    CASE T = "guilds" -> DOMAIN c.guilds
      [] T = "users" -> DOMAIN c.users
      [] T = "members" -> DOMAIN c.members
      [] T = "channels" -> {k \in DOMAIN c.channels_guild : is_text(c.channels_guild[k].data)}
      [] T = "emojis" -> DOMAIN c.emojis
      [] T = "roles" -> DOMAIN c.roles
      [] T = "unavailable guilds" -> c.unavailable_guilds

\* What a chunk holds of an entry: the CachedGuild, the ColdStorageUser,
\* ColdStorageMember, ColdStorageTextChannel, ColdStorageEmoji, ColdStorageRole
\* or the GuildId. serde writes every field of these under a one-letter name
\* and reads an absent optional field as its default, so that a chunk parses to
\* the structs that were written. Of the ColdStorageMember the guild_id and the
\* user_id are read by defrost_members; `data` stands for its other fields.
to_dump(c, T, k) ==
    CASE T = "guilds" -> c.guilds[k]
      [] T = "users" -> [id |-> c.users[k].data.id, data |-> c.users[k].data.data,
                         guilds |-> c.users[k].guilds]
      [] T = "members" -> [guild_id |-> c.members[k].guild_id,
                           user_id |-> c.members[k].user_id, data |-> c.members[k].data]
      [] T = "channels" -> [guild_id |-> {c.channels_guild[k].guild_id},
                            id |-> c.channels_guild[k].data.id,
                            data |-> c.channels_guild[k].data.data]
      [] T = "emojis" -> [guild_id |-> c.emojis[k].guild_id, id |-> c.emojis[k].data.id,
                          data |-> c.emojis[k].data.data]
      [] T = "roles" -> [guild_id |-> c.roles[k].guild_id, id |-> c.roles[k].data.id,
                         data |-> c.roles[k].data.data]
      [] T = "unavailable guilds" -> k

\* The map, or the set, without the keys of the work orders: every dumper
\* removes the entries it writes.
removed(c, T, keys) ==
    CASE T = "guilds" -> [c EXCEPT !.guilds = [x \in DOMAIN @ \ keys |-> @[x]]]
      [] T = "users" -> [c EXCEPT !.users = [x \in DOMAIN @ \ keys |-> @[x]]]
      [] T = "members" -> [c EXCEPT !.members = [x \in DOMAIN @ \ keys |-> @[x]]]
      [] T = "channels" ->
             [c EXCEPT !.channels_guild = [x \in DOMAIN @ \ keys |-> @[x]]]
      [] T = "emojis" -> [c EXCEPT !.emojis = [x \in DOMAIN @ \ keys |-> @[x]]]
      [] T = "roles" -> [c EXCEPT !.roles = [x \in DOMAIN @ \ keys |-> @[x]]]
      [] T = "unavailable guilds" -> [c EXCEPT !.unavailable_guilds = @ \ keys]

\* A slip: the first write that fails ends the dumpers of the resource type, so
\* that the chunks after it are neither removed from the cache nor written.
freeze_type_aborted(c, redis, fault, reversed, T) ==
    LET keys == frozen_keys(c, T)
        chunks == IF T = "unavailable guilds" /\ keys = {} THEN 0
                  ELSE chunk_count(Cardinality(keys))
        orders == work_orders(iter(keys, reversed), chunks)
        written == {i \in 0..(chunks - 1) :
                       \A j \in 0..i : ~fails(fault, chunk_key(T, j), "write")}
    IN  [c |-> removed(c, T, UNION {orders[i] : i \in written}),
         redis |-> [k \in {chunk_key(T, i) : i \in written} |->
                        {to_dump(c, T, x) : x \in orders[k[2]]}] @@ redis,
         chunks |-> chunks]
\* One resource type of prepare_cold_resume: the chunk count, the work orders
\* and the dumpers, each of which removes its entries and writes its chunk; a
\* write that fails is logged and nothing else.
freeze_type(c, redis, fault, reversed, T) ==
    LET keys == frozen_keys(c, T)
        chunks == IF T = "unavailable guilds" /\ keys = {} THEN 0
                  ELSE chunk_count(Cardinality(keys))
        orders == work_orders(iter(keys, reversed), chunks)
        written == {i \in 0..(chunks - 1) : ~fails(fault, chunk_key(T, i), "write")}
    IN  [c |-> removed(c, T, keys),
         redis |-> [k \in {chunk_key(T, i) : i \in written} |->
                        {to_dump(c, T, x) : x \in orders[k[2]]}] @@ redis,
         chunks |-> chunks]

\* The resource types from the t-th on, one after the other; counts are the
\* chunk counts that go into the ColdRebootData.
RECURSIVE freeze_types(_, _, _, _, _, _)
freeze_types(c, redis, counts, fault, reversed, t) ==
    IF t > Len(freeze_order) THEN [c |-> c, redis |-> redis, counts |-> counts]
    ELSE LET r == freeze_type(c, redis, fault, reversed, freeze_order[t])
         IN  freeze_types(r.c, r.redis, Insert(counts, freeze_order[t], r.chunks),
                          fault, reversed, t + 1)

\* ColdStorageCurrentUser of the current user.
cold_current_user(u) == [id |-> u.id, data |-> u.data]

\* One entry of a parsed chunk, inserted as its defroster inserts it.
defrost_item(c, T, x) ==
    CASE T = "guilds" -> [c EXCEPT !.guilds = Insert(@, x.id, x)]
      [] T = "users" ->
             [c EXCEPT !.users = Insert(@, x.id, [data |-> [id |-> x.id, data |-> x.data],
                                                  guilds |-> x.guilds])]
      [] T = "members" ->
             LET c1 == [c EXCEPT !.guild_members = EntryInsert(@, x.guild_id, x.user_id)]
             IN  IF Has(c.users, x.user_id)
                 THEN [c1 EXCEPT !.members =
                           Insert(@, <<x.guild_id, x.user_id>>,
                                  [user_id |-> x.user_id, guild_id |-> x.guild_id,
                                   data |-> x.data])]
                 ELSE c1
      [] T = "channels" ->
             LET guild_id == CHOOSE g \in x.guild_id : TRUE
             IN  [c EXCEPT !.guild_channels = EntryInsert(@, guild_id, x.id),
                           !.channels_guild =
                               Insert(@, x.id, GuildItem([id |-> x.id, guild_id |-> guild_id,
                                                          data |-> x.data], guild_id))]
      [] T = "emojis" ->
             [c EXCEPT !.guild_emojis = EntryInsert(@, x.guild_id, x.id),
                       !.emojis = Insert(@, x.id, GuildItem([id |-> x.id, data |-> x.data],
                                                            x.guild_id))]
      [] T = "roles" ->
             [c EXCEPT !.guild_roles = EntryInsert(@, x.guild_id, x.id),
                       !.roles = Insert(@, x.id, GuildItem([id |-> x.id, data |-> x.data],
                                                           x.guild_id))]
      [] T = "unavailable guilds" -> [c EXCEPT !.unavailable_guilds = @ \cup {x}]
      [] T = "current_user" -> [c EXCEPT !.current_user = {x}]

\* The entries of one parsed chunk, inserted.
RECURSIVE defrost(_, _, _)
defrost(c, T, items) ==
    IF items = {} THEN c
    ELSE LET x == CHOOSE y \in items : TRUE
         IN  defrost(defrost_item(c, T, x), T, items \ {x})

\* What the defroster of a key meets: connection.get(&key).await?.unwrap() and
\* serde_json::from_slice(&data)?.
found(redis, fault, key) ==
    IF fails(fault, key, "storage") THEN "storage error"
    ELSE IF ~Has(redis, key) THEN "missing key"
    ELSE IF fails(fault, key, "parse") THEN "parse error"
    ELSE "ok"

\* (0..reboot_data.<type>_chunks), and the one defroster of the current user.
chunks_of(counts, T) == IF T = "current_user" THEN 1 ELSE counts[T]

\* A slip: the defrosters are joined with join_all and their errors dropped.
join_all(T, why) == [at |-> "restore", result |-> "none", cause |-> "none", why |-> why]
\* try_join_all(..).await.map_err(|e| (T, e))?: the first error of a chunk
\* ends restore_cold_resume with Err((cause, why)), the cause being the name of
\* the resource type; the unwrap of a missing key panics.
try_join_all(T, why) ==
    IF why = "missing key"
    THEN [at |-> "panicked", result |-> "panic", cause |-> "none", why |-> why]
    ELSE [at |-> "failed", result |-> "Err", cause |-> T, why |-> why]

\* The keys of the chunks the restore asks for, for the types up to the t-th.
chunk_keys(counts, t) ==
    UNION {{chunk_key(restore_order[n], i) :
               i \in 0..(chunks_of(counts, restore_order[n]) - 1)} : n \in 1..t}

\* Where the restore is after the keys in fetched: at the first resource type
\* with a chunk that has not been asked for, or past the last type.
RECURSIVE position(_, _, _)
position(counts, fetched, t) ==
    IF t > Len(restore_order) \/ ~(chunk_keys(counts, t) \subseteq fetched) THEN t
    ELSE position(counts, fetched, t + 1)

\* The calls of from_redis in a run.
MaxCalls == 2
\* The most shards, in all and for a cluster.
NumShards == 2
\* total_shards and shards_per_cluster, as prepare_cold_resume and from_redis
\* are given them.
Shards == [total_shards : 1..NumShards, shard_count : 1..NumShards]
Shards0 == [total_shards |-> 1, shard_count |-> 1]

\* ColdRebootData: the chunk counts and the shard numbers; the resume_data go
\* back to the caller as they were given.
ColdRebootData(counts, given) ==
    [counts |-> counts, total_shards |-> given.total_shards,
     shard_count |-> given.shard_count]

\* A slip: the shards of the cluster are not compared.
shards_match_total(data, asked) == data.total_shards = asked.total_shards
\* cold_cache.total_shards == total_shards
\*     && cold_cache.shard_count == shards_per_cluster
shards_match(data, asked) ==
    data.total_shards = asked.total_shards /\ data.shard_count = asked.shard_count

\* No snapshot has been taken.
NoCold ==
    [redis |-> EmptyMap, at |-> "idle", fault |-> NoFault, reversed |-> FALSE,
     counts |-> EmptyMap, source |-> EmptyCache, fetched |-> {}, restored |-> {},
     result |-> "none", cause |-> "none", why |-> "none",
     given |-> Shards0, asked |-> Shards0, calls |-> 0, data |-> {}, sessions |-> "none"]

ColdStep ==
    UNCHANGED <<last, repeat, ret, roleLive, focus, threads, arcs, appended>>

\* prepare_cold_resume up to the current user: the seven chunked types.
PrepareColdResume ==
    /\ cold.at = "idle"
    /\ LET r == freeze_types(cache, cold.redis, EmptyMap, cold.fault, cold.reversed, 1)
       IN  /\ cache' = r.c
           /\ cold' = [cold EXCEPT !.redis = r.redis, !.counts = r.counts,
                                   !.source = cache, !.at = "current_user"]
    /\ UNCHANGED guards
    /\ ColdStep

\* _prepare_cold_resume_current_user: `if let Some(user) =
\* self.0.current_user.lock().unwrap().deref()` takes the Mutex, and the guard
\* lives to the end of the `if let`; with a user in the slot the body then
\* awaits redis.get() ...
FreezeCurrentUserLock ==
    /\ cold.at = "current_user"
    /\ ~guards.current_user
    /\ IF cache.current_user = {}
       THEN /\ cold' = [cold EXCEPT !.at = "data"]
            /\ UNCHANGED guards
       ELSE /\ cold' = [cold EXCEPT !.at = "redis.get"]
            /\ guards' = [guards EXCEPT !.current_user = TRUE]
    /\ UNCHANGED cache
    /\ ColdStep

\* ... then, with the connection, awaits set_and_expire_seconds ...
FreezeCurrentUserConnection ==
    /\ cold.at = "redis.get"
    /\ cold' = [cold EXCEPT !.at = "set_and_expire_seconds"]
    /\ UNCHANGED <<cache, guards>>
    /\ ColdStep

\* ... and with the key written, or the error logged, leaves the `if let`.
FreezeCurrentUserSet ==
    /\ cold.at = "set_and_expire_seconds"
    /\ cold' = [cold EXCEPT
                   !.at = "data",
                   !.redis = IF fails(cold.fault, current_user_key, "write") THEN @
                             ELSE Insert(@, current_user_key,
                                         {cold_current_user(u) : u \in cache.current_user})]
    /\ guards' = [guards EXCEPT !.current_user = FALSE]
    /\ UNCHANGED cache
    /\ ColdStep

\* The end of prepare_cold_resume: the ColdRebootData with the chunk counts.
FreezeData ==
    /\ cold.at = "data"
    /\ cold' = [cold EXCEPT
                   !.at = "frozen",
                   !.redis = IF fails(cold.fault, data_key, "write") THEN @
                             ELSE Insert(@, data_key,
                                         ColdRebootData(cold.counts, cold.given))]
    /\ UNCHANGED <<cache, guards>>
    /\ ColdStep

\* A key of the snapshot expires: it was stored for STORE_DURATION seconds.
Expire ==
    /\ cold.at = "frozen"
    /\ cold.fault.mode = "expired"
    /\ Has(cold.redis, cold.fault.key)
    /\ cold' = [cold EXCEPT !.redis = Remove(@, cold.fault.key)]
    /\ UNCHANGED <<cache, guards>>
    /\ ColdStep

\* from_redis up to restore_cold_resume, in the process that starts next, or
\* called once more: a new cache of the same configuration, and the
\* ColdRebootData read, if it is there, and deleted; with the shard numbers
\* that are asked for the sessions are put together for the caller and the
\* restore begins, and else the new cache is returned with None.
FromRedis ==
    /\ cold.at \in {"frozen", "returned"}
    /\ cold.calls < MaxCalls
    /\ cache' = [EmptyCache EXCEPT !.config = cache.config]
    /\ guards' = NoGuards
    /\ LET why == found(cold.redis, cold.fault, data_key)
           data == IF why \in {"ok", "parse error"} THEN {cold.redis[data_key]} ELSE {}
           call == [cold EXCEPT !.calls = @ + 1, !.data = data, !.fetched = {},
                                !.restored = {}, !.cause = "none"]
       IN  cold' = CASE why = "ok" /\ shards_match(cold.redis[data_key], cold.asked) ->
                          [call EXCEPT !.at = "restore", !.redis = Remove(@, data_key),
                                       !.counts = cold.redis[data_key].counts,
                                       !.sessions = "Some", !.result = "none",
                                       !.why = "none"]
                     [] why = "ok" ->
                          [call EXCEPT !.at = "returned", !.redis = Remove(@, data_key),
                                       !.sessions = "None", !.result = "no snapshot",
                                       !.why = "shard mismatch"]
                     [] why = "parse error" ->
                          [call EXCEPT !.at = "panicked", !.result = "panic", !.why = why,
                                       !.sessions = "none"]
                     [] OTHER ->
                          [call EXCEPT !.at = "returned", !.result = "no snapshot",
                                       !.why = why, !.sessions = "None"]
    /\ ColdStep

\* One defroster of the resource type the restore is at, from its first await
\* to its return: the chunk fetched, parsed, deleted and inserted. With every
\* chunk of the last type done restore_cold_resume returns Ok and so does
\* from_redis.
Defrost ==
    /\ cold.at = "restore"
    /\ LET t == position(cold.counts, cold.fetched, 1)
           T == restore_order[t]
       IN  \E i \in 0..(chunks_of(cold.counts, T) - 1) :
               LET key == IF T = "current_user" THEN current_user_key ELSE chunk_key(T, i)
                   why == found(cold.redis, cold.fault, key)
                   fetched == cold.fetched \cup {chunk_key(T, i)}
                   end == IF position(cold.counts, fetched, 1) > Len(restore_order)
                          THEN [at |-> "returned", result |-> "Ok", cause |-> "none",
                                why |-> "none"]
                          ELSE [at |-> "restore", result |-> "none", cause |-> "none",
                                why |-> "none"]
                   to == IF why = "ok" THEN end
                         ELSE LET e == try_join_all(T, why)
                              IN  IF e.at = "restore" THEN end ELSE e
               IN  /\ chunk_key(T, i) \notin cold.fetched
                   /\ cache' = IF why = "ok" THEN defrost(cache, T, cold.redis[key])
                               ELSE cache
                   /\ cold' = [cold EXCEPT
                                  !.fetched = fetched,
                                  !.restored = IF why = "ok" THEN @ \cup {chunk_key(T, i)}
                                               ELSE @,
                                  !.redis = IF why = "ok" THEN Remove(@, key) ELSE @,
                                  !.at = to.at, !.result = to.result,
                                  !.cause = to.cause,
                                  !.why = IF why = "ok" THEN @ ELSE why]
    /\ UNCHANGED guards
    /\ ColdStep

\* from_redis after an Err of restore_cold_resume: the error is logged and the
\* cache cleared.
RestoreFailed ==
    /\ cold.at = "failed"
    /\ cache' = clear(cache)
    /\ cold' = [cold EXCEPT !.at = "returned"]
    /\ UNCHANGED guards
    /\ ColdStep

\* ------------------------------------------------------------------ stats
\* usize::MAX, which no set of guilds reaches.
usize_MAX == NumGuilds + 1

\* The sequences that hold each element of a set of (key, count) pairs once,
\* counts descending: what sort_unstable_by(b.cmp(a)) may leave, the order of
\* equal counts being open.
sorted_by_count(pairs) ==
    {s \in [1..Cardinality(pairs) -> pairs] :
        /\ \A i, j \in DOMAIN s : i # j => s[i] # s[j]
        /\ \A i, j \in DOMAIN s : i < j => s[i][2] >= s[j][2]}

\* vec.truncate(amount)
truncate(s, amount) == IF Len(s) <= amount THEN s ELSE SubSeq(s, 1, amount)

\* into_iter().filter_map(..).collect(): the guilds of the list that are in
\* the guild map, as CompactGuild { name, member_count }.
RECURSIVE compact_guilds(_, _)
compact_guilds(c, s) ==
    IF s = <<>> THEN <<>>
    ELSE LET rest == compact_guilds(c, Tail(s))
         IN  IF Has(c.guilds, s[1][1])
             THEN <<[name |-> c.guilds[s[1][1]].name, member_count |-> s[1][2]]>> \o rest
             ELSE rest

\* The (guild, size of its member index) pairs of the cache.
guild_sizes(c) == {<<g, Cardinality(c.guild_members[g])>> : g \in DOMAIN c.guild_members}

\* The fold that finds the lowest count anew: the first pair of the iteration
\* whose count is below those before it.
RECURSIVE fold_lowest(_, _)
fold_lowest(s, lowest) ==
    IF s = <<>> THEN lowest
    ELSE fold_lowest(Tail(s), IF s[1][2] < lowest[1] THEN <<s[1][2], {s[1][1]}>> ELSE lowest)

\* A slip: a user is never replaced once the set is full.
replaces_never(len, lowest) == FALSE
\* else if len > lowest.0
replaces(len, lowest) == len > lowest[1]

\* The body of the loop over the users, for the users of the sequence s: st is
\* the HashSet `users` and the pair `lowest`.
RECURSIVE most_mutuals(_, _, _, _, _, _)
most_mutuals(c, s, st, bot_user, amount, reversed) ==
    IF s = <<>> THEN st
    ELSE LET key == s[1]
             len == Cardinality(c.users[key].guilds)
             next ==
                 IF key = bot_user THEN st
                 ELSE IF Cardinality(st.users) < amount
                 THEN [users |-> st.users \cup {<<key, len>>},
                       lowest |-> IF len < st.lowest[1] THEN <<len, {key}>> ELSE st.lowest]
                 ELSE IF replaces(len, st.lowest)
                 THEN LET users == (st.users \ {<<u, st.lowest[1]>> : u \in st.lowest[2]})
                                       \cup {<<key, len>>}
                      IN  [users |-> users,
                           lowest |-> fold_lowest(iter(users, reversed), <<usize_MAX, {}>>)]
                 ELSE st
         IN  most_mutuals(c, Tail(s), next, bot_user, amount, reversed)

\* filter_map(|(user, mutual_count)| ..): CompactUser { name, mutual_count } of
\* the users of the list that the cache holds; the name is made of the user's
\* fields.
RECURSIVE compact_users(_, _)
compact_users(c, s) ==
    IF s = <<>> THEN <<>>
    ELSE LET rest == compact_users(c, Tail(s))
         IN  IF user(c, s[1][1]) # {}
             THEN <<[name |-> CHOOSE u \in user(c, s[1][1]) : TRUE,
                     mutual_count |-> s[1][2]]>> \o rest
             ELSE rest

\* stats(guild_amount, mutuals_amount): guilds and users are the orders that
\* the two sorts leave, reversed the order of the iterations; `users` is the
\* HashSet of the loop, kept with the result.
stats(c, guild_amount, mutuals_amount, guilds, users, reversed) ==
    LET bot_user == IF current_user(c) = {} THEN 0
                    ELSE (CHOOSE u \in current_user(c) : TRUE).id
    IN  [biggest_guilds |->
             IF guild_amount > 0
             THEN {compact_guilds(c, truncate(guilds, guild_amount))}
             ELSE {},
         most_mutuals_users |->
             IF mutuals_amount > 0 THEN {compact_users(c, users)} ELSE {},
         users |->
             IF mutuals_amount > 0
             THEN most_mutuals(c, iter(DOMAIN c.users, reversed),
                               [users |-> {}, lowest |-> <<usize_MAX, {}>>],
                               bot_user, mutuals_amount, reversed).users
             ELSE {}]

\* The amounts a caller of stats asks for.
MaxAmount == 2

StatsCall(guild_amount, mutuals_amount, reversed) ==
    LET some == stats(cache, guild_amount, mutuals_amount, <<>>, <<>>, reversed)
    IN  \E guilds \in sorted_by_count(guild_sizes(cache)), users \in sorted_by_count(some.users) :
            /\ Did(Call("stats", NoGuild,
                        [guild_amount |-> guild_amount, mutuals_amount |-> mutuals_amount]),
                   cache,
                   Ret({stats(cache, guild_amount, mutuals_amount, guilds, users, reversed)},
                       "stats"))
            /\ UNCHANGED roleLive

Stats ==
    \E guild_amount, mutuals_amount \in 0..MaxAmount, reversed \in BOOLEAN :
        StatsCall(guild_amount, mutuals_amount, reversed)

\* No call has been made.
InitRun ==
    /\ last = NoCall
    /\ repeat = FALSE
    /\ ret = NoRet
    /\ roleLive = [g \in Guilds |-> {}]
    /\ threads = NoThreads
    /\ arcs = [obj |-> EmptyMap, at |-> EmptyMap, held |-> {}]
    /\ appended = EmptyMap
    /\ guards = NoGuards

\* No call has been made and no snapshot taken.
InitCalls == InitRun /\ cold = NoCold

InitCache == cache = EmptyCache /\ InitCalls

Focus(kind, ids, guilds, datas) ==
    [kind |-> kind, ids |-> ids, guilds |-> guilds, datas |-> datas,
     fields |-> {NoGuild}, handles |-> FALSE, channels |-> {}]
\* The same, with messages in the channels chs.
InChannels(f, chs) == [f EXCEPT !.channels = chs]
\* The same, with the Arcs of the run followed.
Handles(f) == [f EXCEPT !.handles = TRUE]
\* The same, with incoming channels that name any guild of the run, or none.
AnyField(f) == [f EXCEPT !.fields = f.guilds \cup {NoGuild}]
Kinds == {"role", "channel", "emoji", "member"}
\* A run about two entities, or two guilds, may pick any two.
Pairs(S) == {T \in SUBSET S : Cardinality(T) = 2}

\* ------------------------------------- roles of one guild: cache and delete
InitRoles == InitCache /\ focus \in {Focus("role", Ids, {g}, Datas) : g \in Guilds}
NextRoles == CacheRole \/ DeleteRole
SpecRoles == InitRoles /\ [][NextRoles]_vars

\* ------------------------------------ one entity, any guild: the upserts
InitUpsert ==
    /\ InitCache
    /\ focus \in {AnyField(Focus(k, {id}, Guilds, Datas)) : k \in Kinds, id \in Ids}
NextUpsert ==
    \/ focus.kind = "role" /\ CacheRole
    \/ focus.kind = "channel" /\ CacheGuildChannel
    \/ focus.kind = "emoji" /\ CacheEmoji
    \/ focus.kind = "member" /\ CacheMember
SpecUpsert == InitUpsert /\ [][NextUpsert]_vars

\* ------------------ guild-owned entities of one type: every call on them
InitOwned ==
    /\ InitCache
    /\ focus \in {Focus(k, Ids, Guilds, Datas) : k \in {"role", "channel"}}
                  \cup {Focus(k, {id}, Guilds, Datas) : k \in {"emoji", "member"}, id \in Ids}
NextOwned ==
    \/ CacheGuild
    \/ focus.kind = "role" /\ (CacheRole \/ DeleteRole)
    \/ focus.kind = "channel" /\ (CacheGuildChannel \/ DeleteGuildChannel)
    \/ focus.kind = "emoji" /\ CacheEmoji
    \/ focus.kind = "member" /\ CacheMember
SpecOwned == InitOwned /\ [][NextOwned]_vars

\* ------------------------------------------------- one user, any guild
InitUsers == InitCache /\ focus \in {Focus("user", {id}, Guilds, Datas) : id \in Ids}
NextUsers == CacheUser \/ MemberRemove
SpecUsers == InitUsers /\ [][NextUsers]_vars

\* -------------------------------- guild channels: snapshot, upsert, delete
InitRebuild ==
    /\ InitCache
    /\ focus \in {Focus("channel", I, G, {d}) :
                     I \in Pairs(Ids), G \in Pairs(Guilds), d \in Datas}
NextRebuild == CacheGuild \/ CacheGuildChannel \/ DeleteGuildChannel
SpecRebuild == InitRebuild /\ [][NextRebuild]_vars

\* ------------------------ one guild channel: snapshot, upsert, delete
InitChannel ==
    /\ InitCache
    /\ focus \in {AnyField(Focus("channel", {id}, Guilds, Datas)) : id \in Ids}
SpecChannel == InitChannel /\ [][NextRebuild]_vars

\* ------------------------------------ roles of any guild: cache and delete
InitRoleGuilds == InitCache /\ focus = Focus("role", Ids, Guilds, Datas)
SpecRoleGuilds == InitRoleGuilds /\ [][NextRoles]_vars

\* ------------------- guilds: snapshots, outages and the session's Ready
InitGuilds == InitCache /\ focus = Focus("guild", {1}, Guilds, {1})
NextGuilds == CacheGuild \/ UnavailableGuildFn \/ Ready \/ UnavailableGuild
SpecGuilds == InitGuilds /\ [][NextGuilds]_vars

\* ---------- cache_guild and unavailable_guild of one guild, run at once
NextRace ==
    \/ RaceBegin
    \/ CacheGuildRebuild \/ CacheGuildRemove \/ CacheGuildSub
    \/ CacheGuildInsert \/ CacheGuildAdd
    \/ UnavailableInsert \/ UnavailableAdd \/ UnavailableRemove \/ UnavailableSub
SpecRace == InitGuilds /\ [][NextRace]_vars

\* ------------ one entity of each type, and the handles callers keep to it
HandleKinds == {"role", "channel", "emoji", "member", "user", "guild"}
InitHandles ==
    /\ InitCache
    /\ focus \in {Handles(Focus(k, {1}, {1}, Datas)) : k \in HandleKinds}
NextHandles ==
    \/ Lookup
    \/ Drop
    \/ focus.kind = "role" /\ (CacheRole \/ DeleteRole)
    \/ focus.kind = "channel" /\ (CacheGuildChannel \/ DeleteGuildChannel)
    \/ focus.kind = "emoji" /\ CacheEmoji
    \/ focus.kind = "member" /\ CacheMember
    \/ focus.kind = "user" /\ CacheUser
    \/ focus.kind = "guild" /\ (CacheGuild \/ UnavailableGuildFn)
SpecHandles == InitHandles /\ [][NextHandles]_vars

\* -------------------------- one entity, the session's Ready, and clear
InitClear ==
    /\ InitCache
    /\ focus \in {Focus(k, {id}, Guilds, {d}) : k \in Kinds, id \in Ids, d \in Datas}
NextClear ==
    \/ Clear
    \/ Ready
    \/ focus.kind = "role" /\ CacheRole
    \/ focus.kind = "channel" /\ CacheGuildChannel
    \/ focus.kind = "emoji" /\ CacheEmoji
    \/ focus.kind = "member" /\ CacheMember
SpecClear == InitClear /\ [][NextClear]_vars

\* ---------------------- the messages of one channel, for each cache size
InitMessages ==
    /\ cache \in {[EmptyCache EXCEPT !.config.message_cache_size = k] : k \in 0..MaxSize}
    /\ InitCalls
    /\ focus = InChannels(Focus("message", Ids, {1}, {1}), {1})
SpecMessages == InitMessages /\ [][MessageCreate]_vars

\* ------------- the gated events, for each set of wanted resource types
InitGated ==
    /\ cache \in {[EmptyCache EXCEPT !.config.resource_types = w] : w \in SUBSET ResourceTypes}
    /\ InitCalls
    /\ focus = Focus("guild", {1}, Guilds, Datas)
NextGated == CacheGuild \/ Ready \/ UnavailableGuild \/ UserUpdate
SpecGated == InitGated /\ [][NextGated]_vars

\* ------------ one user: cached alone, as a member and as an emoji's creator
InitMembers == InitCache /\ focus \in {Focus("member", {id}, Guilds, Datas) : id \in Ids}
NextMembers == CacheUser \/ CacheMember \/ CacheEmoji \/ MemberRemove
SpecMembers == InitMembers /\ [][NextMembers]_vars

\* ----------------------------- the same, with guild snapshots of members
InitMembership ==
    /\ InitCache
    /\ focus \in {Focus("member", {id}, Guilds, {d}) : id \in Ids, d \in Datas}
NextMembership == CacheGuild \/ CacheUser \/ CacheMember \/ CacheEmoji \/ MemberRemove
SpecMembership == InitMembership /\ [][NextMembership]_vars

\* ------------------------------------ the private channels of two users
InitPrivate ==
    /\ InitCache
    /\ focus \in {Focus("private", ids, {1}, Datas) : ids \in Pairs(Ids)}
SpecPrivate == InitPrivate /\ [][CachePrivateChannel]_vars

\* --------- the roles of one guild, and cache_role and delete_role at once
NextRoleRace ==
    \/ Quiet /\ CacheRole
    \/ Quiet /\ DeleteRole
    \/ RoleRaceBegin
    \/ CacheRoleIndex \/ CacheRoleEntry \/ CacheRoleInsert
    \/ DeleteRoleRemove \/ DeleteRoleUnindex \/ DeleteRoleSub
SpecRoleRace == InitRoles /\ [][NextRoleRace]_vars

\* ------------------------- one upsert of a new id, twice and at once
InitUpsertRace ==
    /\ InitCache
    /\ focus \in {Focus(k, Ids, Guilds, Datas) : k \in UpsertKinds}
NextUpsertRace ==
    UpsertRaceBegin \/ UpsertGet \/ UpsertUser \/ UpsertInsert \/ UpsertIndex
SpecUpsertRace == InitUpsertRace /\ [][NextUpsertRace]_vars

\* ----------------- the current user, replaced while callers hold handles
InitCurrentUser == InitCache /\ focus = Handles(Focus("current_user", Ids, {1}, Datas))
NextCurrentUser == CacheCurrentUserLock \/ CacheCurrentUserReturn \/ CurrentUserCall \/ Drop
SpecCurrentUser == InitCurrentUser /\ [][NextCurrentUser]_vars

\* ------------------ members, guilds and the current user, and their stats
\* A run is about user 1 and another user, guild 1 and another guild, and ends
\* with its calls of stats.
InitStats ==
    /\ InitCache
    /\ focus \in {Focus("guild", {1, id}, {1, g}, {1}) : id \in Ids \ {1}, g \in Guilds \ {1}}
NextStats ==
    \/ last.op # "stats" /\ CacheGuild
    \/ last.op # "stats" /\ CacheMember
    \/ last.op # "stats" /\ UserUpdate
    \/ Stats
SpecStats == InitStats /\ [][NextStats]_vars

\* ------------------------------- a cache frozen and restored, cold resume
\* The Guild a cache is filled from: one channel, emoji, member and role each.
Snapshot(g) ==
    LET id == ((g - 1) % NumIds) + 1
        data == ((g - 1) % NumData) + 1
    IN  [id |-> g, name |-> 1,
         channels |-> {[id |-> id, guild_id |-> NoGuild, data |-> data]},
         emojis |-> {[id |-> id, data |-> 1, user |-> {}]},
         members |-> {[user |-> [id |-> id, data |-> 1], data |-> 1]},
         roles |-> {[id |-> id, data |-> 1]}]

RECURSIVE cache_each(_, _)
cache_each(c, gs) ==
    IF gs = {} THEN c
    ELSE LET g == CHOOSE x \in gs : TRUE
         IN  cache_each(cache_guild(c, Snapshot(g)), gs \ {g})

\* The caches that are frozen: the guilds in `before` cached and the cache
\* cleared, the guilds in `after` cached, and then a Ready, or none, whose
\* guilds are those in `down`.
ColdCache(before, after, ready) ==
    LET c1 == IF before = {} THEN EmptyCache ELSE clear(cache_each(EmptyCache, before))
        c2 == cache_each(c1, after)
    IN  IF ready = {} THEN c2
        ELSE ready_update(c2, [user |-> [id |-> 1, data |-> 1],
                               guilds |-> CHOOSE down \in ready : TRUE])
ColdCaches ==
    {ColdCache(s[1], s[2], ready) :
        s \in ({{}} \X {{}, {NumGuilds}, Guilds}) \cup ({{1}} \X {{}, {NumGuilds}}),
        ready \in {{}, {{}}, {{1}}}}

\* The keys a fault may be about, and the faults of a run: one at most.
FaultKeys ==
    ({freeze_order[t] : t \in DOMAIN freeze_order} \X {0, 1})
        \cup {current_user_key, data_key}
Faults ==
    {NoFault} \cup [key : FaultKeys, mode : {"write", "expired", "storage", "parse"}]

InitCold ==
    /\ cache \in ColdCaches
    /\ InitRun
    /\ focus = Focus("cold", Ids, Guilds, Datas)
    /\ cold \in {[NoCold EXCEPT !.fault = f, !.reversed = r, !.asked = a] :
                    f \in Faults, r \in BOOLEAN, a \in Shards}
NextCold ==
    \/ PrepareColdResume
    \/ FreezeCurrentUserLock
    \/ FreezeCurrentUserConnection
    \/ FreezeCurrentUserSet
    \/ FreezeData
    \/ Expire
    \/ FromRedis
    \/ Defrost
    \/ RestoreFailed
SpecCold == InitCold /\ [][NextCold]_vars

\* ------------------------------- the users of a cache, frozen in chunks
\* The most users of a cache that is frozen for its work orders.
MaxKeys == 5
\* The cache after cache_user(u, Some(1)) for a user of each id in ids.
UserCache(ids) ==
    [EmptyCache EXCEPT
        !.users = [id \in ids |-> [data |-> [id |-> id, data |-> 1], guilds |-> {1}]],
        !.metrics.users = Cardinality(ids)]
InitOrders ==
    /\ cache \in {UserCache(ids) : ids \in SUBSET (1..MaxKeys)}
    /\ InitRun
    /\ focus = Focus("orders", Ids, Guilds, Datas)
    /\ cold \in {[NoCold EXCEPT !.reversed = r] : r \in BOOLEAN}
NextOrders == PrepareColdResume \/ FreezeCurrentUserLock \/ FreezeData
SpecOrders == InitOrders /\ [][NextOrders]_vars

\* ------------------------------------------------------------ the claims
Upserts == {"cache_role", "cache_guild_channel", "cache_emoji", "cache_member"}
Card(S) == Cardinality(S)
\* Every id some guild's index holds.
Indexed(index) == UNION {index[g] : g \in DOMAIN index}

\* C1 (SpecRoles): right after cache_role(g, p), role(p.id) is p; and when every
\* cache_role call of the run is for guild g, guild_roles(g) is the set of the
\* role ids cached for g and not deleted since (None while none was cached).
C1_LastRoleWins ==
    /\ last.op = "cache_role" => role(cache, last.arg.id) = {last.arg}
    /\ \A g \in Guilds :
          focus.guilds = {g} =>
              /\ \A S \in guild_roles(cache, g) : S = roleLive[g]
              /\ guild_roles(cache, g) = {} => roleLive[g] = {}

\* C1: a role was replaced by a different payload of the same id and is the
\* one role of its guild.
C1_Witness ==
    /\ last.op = "cache_role" /\ ret.arm = "replace"
    /\ guild_roles(cache, last.guild) = {{last.arg.id}}
    /\ cache.metrics.roles = 1

C3_IndexIsMap ==
    /\ Indexed(cache.guild_roles) = DOMAIN cache.roles
    /\ Indexed(cache.guild_channels) = DOMAIN cache.channels_guild
    /\ Indexed(cache.guild_emojis) = DOMAIN cache.emojis
    /\ {<<g, u>> : g \in Guilds, u \in Ids} \cap
          {x \in Guilds \X Ids : \E S \in guild_members(cache, x[1]) : x[2] \in S}
            = DOMAIN cache.members

\* C4 (SpecOwned): the roles and channels_guild counters are the sizes of the
\* roles and channels_guild maps.
C4_CountersAreSizes ==
    /\ cache.metrics.roles = Card(DOMAIN cache.roles)
    /\ cache.metrics.channels_guild = Card(DOMAIN cache.channels_guild)

\* C5 (SpecRebuild): cache_guild leaves in the guild's channel index exactly
\* the channel ids of its payload, so an id cached before and missing from the
\* payload is gone, and leaves every other guild's channel index as it was.
C5_Rebuild ==
    [][last'.op = "cache_guild" =>
          /\ guild_channels(cache', last'.guild) = {{ch.id : ch \in last'.arg.channels}}
          /\ \A h \in Guilds \ {last'.guild} :
                guild_channels(cache', h) = guild_channels(cache, h)]_vars

\* C5: a channel cached under the guild is missing from the payload and from
\* the guild's index after the rebuild, and another guild has a channel.
C5_Witness ==
    /\ last.op = "cache_guild"
    /\ \E id \in DOMAIN cache.channels_guild :
          /\ cache.channels_guild[id].guild_id = last.guild
          /\ id \notin {ch.id : ch \in last.arg.channels}
          /\ guild_channels(cache, last.guild) = {{ch.id : ch \in last.arg.channels}}
    /\ \E h \in Guilds \ {last.guild} : \E S \in guild_channels(cache, h) : S # {}

\* The entity of a payload is retrievable and in the guild's index.
EmojiCached(g, e) ==
    /\ emoji(cache, e.id) # {}
    /\ \E S \in guild_emojis(cache, g) : e.id \in S
MemberCached(g, m) ==
    /\ member(cache, g, m.user.id) # {}
    /\ \E S \in guild_members(cache, g) : m.user.id \in S

\* C6 (SpecOwned): when cache_member or cache_emoji has returned, directly or
\* within cache_guild, the entity is retrievable and its id is in the guild's
\* index.
C6_CachedIsIndexed ==
    /\ last.op = "cache_emoji" => EmojiCached(last.guild, last.arg)
    /\ last.op = "cache_member" => MemberCached(last.guild, last.arg)
    /\ last.op = "cache_guild" =>
          /\ \A e \in last.arg.emojis : EmojiCached(last.guild, e)
          /\ \A m \in last.arg.members : MemberCached(last.guild, m)

\* A channel payload is stored for guild g: its guild_id field and its
\* ownership tag are g, and it is otherwise the payload.
StoredFor(g, ch) ==
    /\ Has(cache.channels_guild, ch.id)
    /\ cache.channels_guild[ch.id].guild_id = g
    /\ \A x \in guild_channel(cache, ch.id) :
          x.guild_id = g /\ x.id = ch.id /\ x.data = ch.data

\* C7 (SpecChannel): a channel cached through cache_guild_channel(g, c), or as
\* part of a cache_guild payload for g, is stored with guild_id g and tag g,
\* whatever its incoming guild_id was.
C7_BackFill ==
    /\ last.op = "cache_guild_channel" => StoredFor(last.guild, last.arg)
    /\ last.op = "cache_guild" => \A ch \in last.arg.channels : StoredFor(last.guild, ch)

\* C7: a guild payload held a channel that named another guild.
C7_Witness ==
    /\ last.op = "cache_guild"
    /\ \E ch \in last.arg.channels : ch.guild_id \notin {NoGuild, last.guild}

\* C8 (SpecUsers): cache_user(U, Some(B)) right after cache_user(U, Some(A))
\* with the same payload leaves U stored with B added to its guilds, which are
\* {A, B} when the first call stored U anew; a member removal leaves the user
\* with the guild taken off its set while another guild is left, and removes
\* the user when none is left.
C8_UserGuilds ==
    [][/\ ( /\ last.op = "cache_user" /\ last'.op = "cache_user"
            /\ last.guild # NoGuild /\ last'.guild # NoGuild
            /\ last'.arg = last.arg ) =>
              /\ user(cache', last.arg.id) = {last.arg}
              /\ \A S \in user_guilds(cache, last.arg.id) :
                    user_guilds(cache', last.arg.id) = {S \cup {last'.guild}}
              /\ ret.arm # "eq" =>
                    user_guilds(cache', last.arg.id) = {{last.guild, last'.guild}}
       /\ last'.op = "member_remove" =>
              \A S \in user_guilds(cache, last'.arg.id) :
                  IF S \ {last'.guild} # {}
                  THEN /\ user(cache', last'.arg.id) = user(cache, last'.arg.id)
                       /\ user_guilds(cache', last'.arg.id) = {S \ {last'.guild}}
                  ELSE user(cache', last'.arg.id) = {}]_vars

\* C8: the user has been removed from its last guild and is gone.
C8_Witness ==
    /\ last.op = "member_remove" /\ ret.arm = "removed"
    /\ user(cache, last.arg.id) = {}

\* C9 (SpecUsers): cache_user(u2, Some(B)) on a user stored with other data
\* and guilds S stores u2 with guilds S and B.
C9_GuildsKept ==
    [][( /\ last'.op = "cache_user" /\ last'.guild # NoGuild
         /\ Has(cache.users, last'.arg.id)
         /\ cache.users[last'.arg.id].data # last'.arg ) =>
              /\ user(cache', last'.arg.id) = {last'.arg}
              /\ user_guilds(cache', last'.arg.id) =
                    {cache.users[last'.arg.id].guilds \cup {last'.guild}}]_vars

\* C10 (SpecUsers): right after cache_user(u, None), user(u.id) is u.
C10_StoredWithoutGuild ==
    (last.op = "cache_user" /\ last.guild = NoGuild) => user(cache, last.arg.id) = {last.arg}

\* C11 (SpecMembers): the users counter is the number of entries of the users
\* map.
C11_UsersCounted == cache.metrics.users = Card(DOMAIN cache.users)

\* The three records of "user u is a member of guild g".
Tracked(g, u) == \E S \in user_guilds(cache, u) : g \in S
InIndex(g, u) == \E S \in guild_members(cache, g) : u \in S
InMembers(g, u) == member(cache, g, u) # {}

\* C12 (SpecMembership): for each guild g and user u, g is in u's guild set
\* iff u is in guild_members(g) iff the members map holds (g, u).
C12_MembershipAgrees ==
    \A g \in Guilds, u \in Ids :
        /\ Tracked(g, u) <=> InIndex(g, u)
        /\ InIndex(g, u) <=> InMembers(g, u)

\* The guilds whose index holds the id.
Owners(index, id) == {g \in DOMAIN index : id \in index[g]}

\* C13 (SpecRoleGuilds): each role id of the roles map is in the role set of
\* exactly one guild, the guild of the ownership tag stored with the role.
C13_OneOwner ==
    \A id \in DOMAIN cache.roles :
        Owners(cache.guild_roles, id) = {cache.roles[id].guild_id}

C15_ExactlyOne ==
    (threads.cg = "done" /\ threads.ug = "done") =>
        (Has(cache.guilds, threads.guild.id)
            <=> threads.guild.id \notin cache.unavailable_guilds)

C17_ClearIsNew ==
    last.op = "clear" => cache = [EmptyCache EXCEPT !.config = cache.config]

Min(a, b) == IF a < b THEN a ELSE b
\* The ids a channel should hold, newest first: the last Min(K, n) appended.
Newest(ch) ==
    LET h == Appended(ch)
        m == Min(cache.config.message_cache_size, Len(h))
    IN  [i \in 1..m |-> h[Len(h) + 1 - i]]
Buffered(ch) ==
    IF Has(cache.messages, ch)
    THEN [i \in 1..Len(cache.messages[ch]) |-> cache.messages[ch][i].id]
    ELSE <<>>

\* C18 (SpecMessages): a channel of capacity K holds the Min(K, n) messages
\* appended last, newest first; last_message is the id appended last and
\* first_message the id of the oldest message held, and both are None for a
\* channel that holds no message.
C18_RingBuffer ==
    \A ch \in Ids :
        /\ Buffered(ch) = Newest(ch)
        /\ last_message(cache, ch) =
              (IF Newest(ch) = <<>> THEN {} ELSE {Newest(ch)[1]})
        /\ first_message(cache, ch) =
              (IF Newest(ch) = <<>> THEN {} ELSE {Newest(ch)[Len(Newest(ch))]})

\* C18: K + 1 messages were appended to a channel of capacity K, two or more,
\* and first_message is the second of them, which is not the first.
C18_Witness ==
    \E ch \in Ids :
        /\ cache.config.message_cache_size >= 2
        /\ Len(Appended(ch)) = cache.config.message_cache_size + 1
        /\ Len(Buffered(ch)) = cache.config.message_cache_size
        /\ first_message(cache, ch) = {Appended(ch)[2]}
        /\ Appended(ch)[1] # Appended(ch)[2]
        /\ last_message(cache, ch) = {Appended(ch)[Len(Appended(ch))]}

\* The store but for the given fields, and the counters but for the given ones.
Except(c, fields, counters) ==
    <<[f \in (DOMAIN c \ fields) \ {"metrics"} |-> c[f]],
      [m \in DOMAIN c.metrics \ counters |-> c.metrics[m]]>>

\* C19 (SpecGated): UnavailableGuild without GUILD and UserUpdate without
\* USER_CURRENT leave the store and the counters as they were; Ready changes
\* the current user only with USER_CURRENT, the guild map, the unavailable set
\* and their counters only with GUILD, and nothing else.
C19_Gated ==
    [][/\ (last'.op = "UnavailableGuild" /\ ~wants(cache, "GUILD")) => cache' = cache
       /\ (last'.op = "UserUpdate" /\ ~wants(cache, "USER_CURRENT")) => cache' = cache
       /\ last'.op = "Ready" =>
             /\ ~wants(cache, "USER_CURRENT") => current_user(cache') = current_user(cache)
             /\ ~wants(cache, "GUILD") =>
                   /\ cache'.guilds = cache.guilds
                   /\ cache'.unavailable_guilds = cache.unavailable_guilds
                   /\ cache'.metrics = cache.metrics
             /\ Except(cache', {"current_user", "guilds", "unavailable_guilds"},
                               {"guilds", "unavailable_guilds"})
                   = Except(cache, {"current_user", "guilds", "unavailable_guilds"},
                                   {"guilds", "unavailable_guilds"})]_vars

\* C19: an UnavailableGuild event for a cached guild was dropped by a cache
\* that does not want GUILD, and the guild is still cached.
C19_Witness ==
    /\ last.op = "UnavailableGuild"
    /\ ~wants(cache, "GUILD")
    /\ guild(cache, last.guild) # {}
    /\ last.guild \notin cache.unavailable_guilds

\* A delete of id took the store from c to c2: nothing changed if the id was
\* not in the map; else the entry is gone, the id is out of the set of the
\* guild of its tag, and the counter is one lower.
Deleted(c, c2, map, index, counter, id) ==
    IF ~Has(c[map], id) THEN c2 = c
    ELSE /\ ~Has(c2[map], id)
         /\ \A S \in Get(c2[index], c[map][id].guild_id) : id \notin S
         /\ c2.metrics[counter] = c.metrics[counter] - 1

\* C20 (SpecOwned): delete_role and delete_guild_channel change nothing for an
\* id that is not cached, as on a second delete; for a cached id they remove
\* the entry, take the id out of the owning guild's set and lower the counter
\* by one; and the two counters are never below zero.
C20_DeleteOnce ==
    [][/\ last'.op = "delete_role" =>
             Deleted(cache, cache', "roles", "guild_roles", "roles", last'.arg.id)
       /\ last'.op = "delete_guild_channel" =>
             Deleted(cache, cache', "channels_guild", "guild_channels",
                     "channels_guild", last'.arg.id)
       /\ cache'.metrics.roles >= 0 /\ cache'.metrics.channels_guild >= 0]_vars

\* The key of a private channel: the id of its first recipient, as an Option.
PrivateKey(p) == IF p.recipients = <<>> THEN {} ELSE {p.recipients[1].id}

\* C21 (SpecPrivate): cache_private_channel stores a channel under the id of
\* its first recipient, and a call with a channel that has no recipient fails
\* before it changes anything: the store, its counters included, is as it was.
C21_NoRecipients ==
    [][last'.op = "cache_private_channel" /\ last' # last =>
          IF last'.arg.recipients = <<>>
          THEN ret'.arm = "panic" /\ cache' = cache /\ guards' = guards
          ELSE ret'.arm \in {"eq", "vacant"} =>
                   /\ DOMAIN cache'.channels_private =
                          DOMAIN cache.channels_private \cup PrivateKey(last'.arg)
                   /\ \A id \in PrivateKey(last'.arg) :
                          cache'.channels_private[id] = last'.arg]_vars

\* C21: a channel with no recipient has been passed to a cache that holds a
\* private channel.
C21_Witness ==
    /\ last.op = "cache_private_channel" /\ last.arg.recipients = <<>>
    /\ ret.arm = "panic"
    /\ cache.channels_private # EmptyMap /\ cache.metrics.channels_private > 0

\* C22 (SpecPrivate): cache_private_channel(p) with a first recipient returns,
\* and the channel stored for that recipient is then p, also when a channel
\* with other data was stored for the recipient: the call never waits for a
\* guard that it holds itself.
C22_Returns ==
    last.op = "cache_private_channel" /\ last.arg.recipients # <<>> =>
        /\ ret.arm # "blocked"
        /\ guards.private = {}
        /\ Get(cache.channels_private, last.arg.recipients[1].id) = {last.arg}


\* The steps of the cold resume at which its task waits for the external store
\* with other tasks free to run.
Awaiting == {"redis.get", "set_and_expire_seconds", "frozen", "restore", "failed"}

\* C23 (SpecCold): the Mutex of the current user is never held while a task
\* waits for the external store: the freeze and the restore of the current
\* user, like cache_current_user, current_user and clear, release it before
\* any await.
C23_NotAcrossAwait == ~(guards.current_user /\ cold.at \in Awaiting)


\* ceil(n / size)
Ceil(n, size) == (n + size - 1) \div size
\* The primary maps that are frozen in chunks.
FrozenMaps == {"guilds", "users", "members", "channels", "emojis", "roles"}

\* C24 (SpecCold): a primary map of n entries is frozen into ceil(n / ChunkSize)
\* chunks, and that number is the chunk count of its resource type in the
\* ColdRebootData.
C24_ChunkCount ==
    cold.at = "current_user" /\ cold.fault.mode # "write" =>
        \A T \in FrozenMaps :
            LET n == Cardinality(frozen_keys(cold.source, T))
            IN  /\ cold.counts[T] = Ceil(n, ChunkSize)
                /\ Cardinality({k \in DOMAIN cold.redis : k[1] = T}) = Ceil(n, ChunkSize)


\* Every guild chunk of the snapshot has been restored.
GuildsRestored ==
    /\ cold.at \in {"restore", "returned", "panicked"}
    /\ \A i \in 0..(cold.counts["guilds"] - 1) : chunk_key("guilds", i) \in cold.restored

\* C25 (SpecCold): with no fault of the external store, the guild map after
\* the guild chunks of a frozen cache have been restored into a new cache is
\* the guild map that was frozen: the same ids with equal values, in however
\* many chunks.
C25_GuildRoundTrip ==
    cold.fault = NoFault /\ GuildsRestored => cache.guilds = cold.source.guilds

\* C25: two guilds have come back from two chunks and the restore has returned.
C25_Witness ==
    /\ cold.fault = NoFault /\ GuildsRestored
    /\ cold.at = "returned" /\ cold.result = "Ok"
    /\ cold.counts["guilds"] = 2
    /\ Cardinality(DOMAIN cold.source.guilds) = 2
    /\ cache.guilds = cold.source.guilds


\* restore_cold_resume has returned an error and from_redis has returned.
RestoreFailure == cold.at = "returned" /\ cold.result = "Err"

\* C26 (SpecCold): the cache that from_redis returns after a failed restore is
\* empty: the primary maps, the four guild indices, the members, the
\* unavailable guilds and the current user, whatever had been restored.
C26_EmptyAfterFailure ==
    RestoreFailure =>
        /\ \A map \in {"guilds", "users", "members", "channels_guild", "emojis", "roles",
                       "guild_members", "guild_channels", "guild_emojis", "guild_roles"} :
               cache[map] = EmptyMap
        /\ cache.unavailable_guilds = {}
        /\ cache.current_user = {}


\* The chunk keys, the key of the current user included, that the restore
\* asked for and did not restore.
Failed == cold.fetched \ cold.restored

\* C27 (SpecCold): a chunk key, or the key of the current user, that is not in
\* the external store when the restore asks for it makes restore_cold_resume
\* return an error that names the resource type of the key; nothing panics.
C27_MissingIsError ==
    \A k \in Failed :
        cold.why = "missing key" =>
            cold.at # "panicked" /\ cold.result = "Err" /\ cold.cause = k[1]


\* The order of the restore, as the claims have it, and the place of a
\* resource type in it.
Sequence ==
    <<"guilds", "users", "members", "channels", "emojis", "roles", "unavailable guilds",
      "current_user">>
Rank(T) == CHOOSE n \in DOMAIN Sequence : Sequence[n] = T
\* The cache holds something of a resource type.
Holds(c, T) ==
    CASE T = "guilds" -> c.guilds # EmptyMap
      [] T = "users" -> c.users # EmptyMap
      [] T = "members" -> c.members # EmptyMap \/ c.guild_members # EmptyMap
      [] T = "channels" -> c.channels_guild # EmptyMap \/ c.guild_channels # EmptyMap
      [] T = "emojis" -> c.emojis # EmptyMap \/ c.guild_emojis # EmptyMap
      [] T = "roles" -> c.roles # EmptyMap \/ c.guild_roles # EmptyMap
      [] T = "unavailable guilds" -> c.unavailable_guilds # {}
      [] T = "current_user" -> c.current_user # {}
\* The keys that the freeze wrote for a resource type.
Written(T) ==
    IF T = "current_user"
    THEN {k \in {current_user_key} : cold.source.current_user # {}}
    ELSE {chunk_key(T, i) : i \in 0..(cold.counts[T] - 1)}

\* C28 (SpecCold): when a chunk of a resource type T fails with a storage or a
\* parse error, restore_cold_resume returns an error with the name of T, and
\* of the later types no chunk has been asked for, none is in the cache and
\* none has been deleted from the external store.
C28_FailFast ==
    \A k \in Failed :
        cold.why \in {"storage error", "parse error"} =>
            /\ cold.at \in {"failed", "returned"}
            /\ cold.result = "Err" /\ cold.cause = k[1]
            /\ \A T \in {Sequence[n] : n \in DOMAIN Sequence} :
                   Rank(T) > Rank(k[1]) =>
                       /\ \A f \in cold.fetched : f[1] # T
                       /\ cold.at = "failed" => ~Holds(cache, T)
                       /\ Written(T) \subseteq DOMAIN cold.redis

\* C28: the second chunk of the members has failed after the first was
\* restored, with chunks of later types in the external store.
C28_Witness ==
    /\ cold.at = "failed" /\ cold.result = "Err" /\ cold.cause = "members"
    /\ Failed = {chunk_key("members", 1)}
    /\ chunk_key("members", 0) \in cold.restored
    /\ cold.why = "parse error"
    /\ Holds(cache, "users") /\ ~Holds(cache, "channels")
    /\ Written("channels") # {} /\ Written("current_user") # {}


\* C29 (SpecCold): after a restore that succeeded every counter is the length
\* of its map: of the guilds, users, members, guild channels, emojis, roles
\* and unavailable guilds.
C29_CountersAreLengths ==
    cold.at = "returned" /\ cold.result = "Ok" =>
        /\ \A map \in {"guilds", "users", "members", "channels_guild", "emojis", "roles"} :
               cache.metrics[map] = Cardinality(DOMAIN cache[map])
        /\ cache.metrics.unavailable_guilds = Cardinality(cache.unavailable_guilds)


\* The restore is under way, or has returned without clearing the cache.
Restoring ==
    \/ cold.at \in {"restore", "failed", "panicked"}
    \/ cold.at = "returned" /\ cold.result = "Ok"

\* C30 (SpecCold): the restore takes the resource types in the order guilds,
\* users, members, channels, emojis, roles, unavailable guilds, current user,
\* and asks for no chunk of a type before every chunk of the types before it
\* has been restored; so every member in the cache that is being restored has
\* its user in the user map.
C30_RestoreOrder ==
    /\ \A f \in cold.fetched :
           \A T \in {Sequence[n] : n \in DOMAIN Sequence} :
               Rank(T) < Rank(f[1]) =>
                   \A i \in 0..(chunks_of(cold.counts, T) - 1) :
                       chunk_key(T, i) \in cold.restored
    /\ Restoring => \A id \in DOMAIN cache.members : Has(cache.users, id[2])

\* C30: both chunks of the users and then both chunks of the members have
\* been restored, and the members are in the cache.
C30_Witness ==
    /\ cold.at = "restore"
    /\ {chunk_key(T, i) : T \in {"users", "members"}, i \in {0, 1}} \subseteq cold.restored
    /\ Cardinality(DOMAIN cache.members) = 2
    /\ \A id \in DOMAIN cache.members : Has(cache.users, id[2])


\* The resource types that are frozen in chunks.
Chunked == {freeze_order[t] : t \in DOMAIN freeze_order}

\* C31 (SpecCold): a write to the external store that fails while the cache is
\* frozen does not end the freeze: every entry of every resource type has
\* been taken out of the cache for its chunk, every other chunk key, the key of
\* the current user and the key of the restart data are written, and nothing
\* has panicked or returned an error.
C31_WriteErrorLogged ==
    cold.fault.mode = "write" /\ cold.at = "frozen" =>
        /\ cold.result = "none"
        /\ \A T \in Chunked :
               /\ frozen_keys(cache, T) = {}
               /\ Written(T) \ {cold.fault.key} \subseteq DOMAIN cold.redis
        /\ Written("current_user") \ {cold.fault.key} \subseteq DOMAIN cold.redis
        /\ {data_key} \ {cold.fault.key} \subseteq DOMAIN cold.redis

\* C31: the write of the first guild chunk has failed, and the second guild
\* chunk, the chunks of the roles and the restart data are written.
C31_Witness ==
    /\ cold.at = "frozen"
    /\ cold.fault = [key |-> chunk_key("guilds", 0), mode |-> "write"]
    /\ Cardinality(DOMAIN cold.source.guilds) = 2
    /\ ~Has(cold.redis, chunk_key("guilds", 0))
    /\ Has(cold.redis, chunk_key("guilds", 1))
    /\ cold.redis[chunk_key("guilds", 1)] # {}
    /\ Has(cold.redis, chunk_key("roles", 0))
    /\ Has(cold.redis, data_key)
    /\ cache.guilds = EmptyMap


\* cache_role and delete_role of one role have run at once and have returned.
RoleRaceDone == threads # NoThreads /\ threads.cr = "done" /\ threads.dr = "done"

\* C32 (SpecRoleRace): when cache_role(g, r) and delete_role(r.id) have run at
\* once, in any interleaving of their steps, on a cache that held r under g,
\* and both have returned, r.id is in guild_roles(g) exactly if role(r.id) is
\* Some, and the roles counter is the size of the roles map.
C32_Converges ==
    RoleRaceDone =>
        /\ (\E S \in guild_roles(cache, threads.guild) : threads.role.id \in S)
              <=> role(cache, threads.role.id) # {}
        /\ cache.metrics.roles = Cardinality(DOMAIN cache.roles)


\* The two calls of the same upsert have returned.
UpsertRaceDone == ~Quiet /\ threads.a = "done" /\ threads.b = "done"

\* C33 (SpecUpsertRace): when two threads have made the same upsert at once,
\* of an id that was not cached, and both have returned, the counter of the
\* type has risen by one and the primary map holds the id.
C33_CountedOnce ==
    UpsertRaceDone =>
        /\ cache.metrics[primary(threads.kind)] = threads.count + 1
        /\ Has(cache[primary(threads.kind)],
               upsert_key(threads.kind, threads.guild, threads.arg))


\* cache_current_user has returned.
Replaced == last.op = "cache_current_user" /\ ret.arm \in {"swap", "new"}

\* C34 (SpecCurrentUser): after cache_current_user(u) has returned, the slot
\* holds u, whether it was empty or occupied, and the Mutex is free; and every
\* handle that current_user() gave out still shows the value it showed when it
\* was given, so the stored value is changed in place only when no caller
\* holds a handle to it.
C34_Replace ==
    /\ Replaced =>
          /\ current_user(cache) = {last.arg}
          /\ arcs.obj[arcs.at[current_user_slot]] = last.arg
          /\ ~guards.current_user
    /\ \A h \in arcs.held : arcs.obj[h.addr] = h.val

\* C34: the user was replaced while a caller held a handle to the one before,
\* the slot has a new allocation and the handle shows the user before.
C34_Witness ==
    /\ Replaced /\ ret.arm = "new"
    /\ \E h \in arcs.held :
          /\ h.val # last.arg
          /\ h.addr # arcs.at[current_user_slot]
          /\ arcs.obj[h.addr] = h.val
    /\ current_user(cache) = {last.arg}


\* C35 (SpecCold): after a restore that succeeded, every user id in the member
\* index of a guild has a member entry, also when a member chunk named a user
\* that no user chunk held.
C35_IndexedMembersRestored ==
    cold.at = "returned" /\ cold.result = "Ok" =>
        \A g \in DOMAIN cache.guild_members :
            \A u \in cache.guild_members[g] : member(cache, g, u) # {}


\* prepare_cold_resume has frozen the seven chunked resource types.
Drained == cold.at \in {"current_user", "redis.get", "set_and_expire_seconds", "data", "frozen"}
\* The Text channels of a cache, and its other guild channels.
TextChannels(c) == {k \in DOMAIN c.channels_guild : is_text(c.channels_guild[k].data)}
OtherChannels(c) == DOMAIN c.channels_guild \ TextChannels(c)
\* The channels in the channel chunks of the external store.
Exported ==
    UNION {cold.redis[k] : k \in {x \in DOMAIN cold.redis : x[1] = "channels"}}

\* C36 (SpecCold): when prepare_cold_resume has frozen the cache, the guilds,
\* users, members, emojis, roles and unavailable guilds are empty; the Text
\* channels are removed and, unless a write failed, in the chunks; the other
\* guild channels are left in the cache and in no chunk; the four indices of
\* the guilds are as they were; and a restore brings back the Text channels
\* alone.
C36_Drained ==
    /\ Drained =>
          /\ \A map \in {"guilds", "users", "members", "emojis", "roles"} :
                 cache[map] = EmptyMap
          /\ cache.unavailable_guilds = {}
          /\ cache.channels_guild =
                 [k \in OtherChannels(cold.source) |-> cold.source.channels_guild[k]]
          /\ \A x \in Exported : x.id \in TextChannels(cold.source)
          /\ cold.fault.mode # "write" /\ cold.at # "frozen" =>
                 {x.id : x \in Exported} = TextChannels(cold.source)
          /\ \A index \in {"guild_channels", "guild_emojis", "guild_members", "guild_roles"} :
                 cache[index] = cold.source[index]
    /\ cold.at = "returned" /\ cold.result = "Ok" =>
          /\ DOMAIN cache.channels_guild = TextChannels(cold.source)
          /\ OtherChannels(cache) = {}

\* C36: a cache with a Text channel and another channel, each in the index of
\* its guild, has been frozen: the Text channel is in a chunk and the other
\* channel in the cache.
C36_Witness ==
    /\ cold.at = "frozen"
    /\ TextChannels(cold.source) # {} /\ OtherChannels(cold.source) # {}
    /\ DOMAIN cache.channels_guild = OtherChannels(cold.source)
    /\ {x.id : x \in Exported} = TextChannels(cold.source)
    /\ cache.guild_channels = cold.source.guild_channels
    /\ Cardinality(DOMAIN cache.guild_channels) = 2
    /\ cold.source.guilds # EmptyMap /\ cache.guilds = EmptyMap


\* C37 (SpecCold): a snapshot that was written with no error of the external
\* store, of any cache, is restored with no error and no panic: also that of a
\* cache with no current user, with no unavailable guilds or with empty maps.
C37_RestoresWhatItWrote ==
    cold.fault = NoFault => cold.at # "panicked" /\ cold.result \notin {"Err", "panic"}


\* The chunk of a resource type that the freeze wrote under an index.
Chunk(T, i) == cold.redis[chunk_key(T, i)]

Returned == cold.calls > 0 /\ cold.at = "returned"
SameShards ==
    \E d \in cold.data :
        d.total_shards = cold.asked.total_shards /\ d.shard_count = cold.asked.shard_count

Others == DOMAIN cache.users \ {u.id : u \in current_user(cache)}
Mutuals(u) == Cardinality(cache.users[u].guilds)
Descending(list, Count(_)) ==
    \A i, j \in DOMAIN list : i < j => Count(list[i]) >= Count(list[j])
MutualCount(x) == x.mutual_count
MemberCount(x) == x.member_count
Smaller(a, b) == IF a < b THEN a ELSE b

\* C40 (SpecStats): of stats(guild_amount, mutuals_amount), with k for
\* mutuals_amount: for k = 0 most_mutuals_users is None, and else it lists
\* min(k, users other than the current user) users, none of them the current
\* user, with counts that are the sizes of their guild sets and no smaller
\* than that of any user left out, in descending order; for guild_amount = 0
\* biggest_guilds is None, and else it lists at most guild_amount guilds with
\* the sizes of their member indices in descending order.
C40_Stats ==
    last.op = "stats" =>
        \A s \in ret.val :
            /\ last.arg.mutuals_amount = 0 <=> s.most_mutuals_users = {}
            /\ \A list \in s.most_mutuals_users :
                   /\ Len(list) = Smaller(last.arg.mutuals_amount, Cardinality(Others))
                   /\ Cardinality(s.users) = Len(list)
                   /\ s.users \subseteq {<<u, Mutuals(u)>> : u \in Others}
                   /\ \A x \in s.users, u \in Others \ {y[1] : y \in s.users} :
                          x[2] >= Mutuals(u)
                   /\ \A n \in 0..NumGuilds :
                          Cardinality({i \in DOMAIN list : list[i].mutual_count = n}) =
                              Cardinality({x \in s.users : x[2] = n})
                   /\ Descending(list, MutualCount)
            /\ last.arg.guild_amount = 0 <=> s.biggest_guilds = {}
            /\ \A list \in s.biggest_guilds :
                   /\ Len(list) <= last.arg.guild_amount
                   /\ Descending(list, MemberCount)
                   /\ \A i \in DOMAIN list :
                          \E g \in DOMAIN cache.guild_members \cap DOMAIN cache.guilds :
                              list[i].member_count = Cardinality(cache.guild_members[g])

\* C40: stats was asked for one user of two that are not the current user; the
\* one listed is in two guilds and the other in one. Of two guilds with
\* member indices of different sizes one is listed.
C40_Witness ==
    /\ last.op = "stats" /\ last.arg.mutuals_amount = 1 /\ last.arg.guild_amount = 1
    /\ Cardinality(Others) = 2
    /\ \E u \in Others : Mutuals(u) = 1
    /\ \A s \in ret.val :
          /\ \A list \in s.most_mutuals_users : Len(list) = 1 /\ list[1].mutual_count = 2
          /\ \A list \in s.biggest_guilds : Len(list) = 1 /\ list[1].member_count = 2
    /\ \E g \in DOMAIN cache.guild_members : Cardinality(cache.guild_members[g]) = 1

=============================================================================
